---------------------------- MODULE Spec2Model ----------------------------
(***************************************************************************)
(* Model of the web-page analyzer's concurrent link analysis               *)
(* (analyzer/link_analysis.go): the direct-goroutine batch scheduler       *)
(* analyzeLinksConcurrent, the per-link classifier processLinkParallel,    *)
(* and the worker-count and deadline policies.                             *)
(*                                                                         *)
(* A link (href string) is a sequence of lexical tokens, e.g.              *)
(*   "https://other.test/c"  is  <<"https:", "//", "other.test", "/c">>    *)
(*   "#frag"                 is  <<"#", "frag">>                           *)
(*   ""                      is  << >>                                     *)
(* so that strings.HasPrefix and url.Parse are computed on the text of the *)
(* link and not assumed.                                                   *)
(*                                                                         *)
(* Further specifications in this module: ProbeSpec, one link classified   *)
(* by LinkProcessor.ProcessLink with the HEAD probe isLinkAccessible as    *)
(* its checker (analyzer/link_utils.go); BreakerSpec, the circuit breaker  *)
(* (analyzer/circuit_breaker.go); CacheSpec, the result cache              *)
(* (analyzer/cache.go); HandlerSpec, the HTTP handler AnalyzeHandler       *)
(* (handlers/handlers.go); ClientPoolSpec, concurrent HEAD probes against  *)
(* the pool of HTTP clients; WorkerPoolSpec, the AnalysisWorkerPool batch  *)
(* (analyzer/worker_pool.go).  Each specification leaves the variables of  *)
(* the others at rest.                                                     *)
(***************************************************************************)
EXTENDS Integers, Sequences, FiniteSets, Bags, TLC

\* Longest link list the batch model runs.
MaxLinks == 2
\* Largest link count the policy functions are evaluated on.
MaxLinkCount == 210
\* Largest failureThreshold and successThreshold a breaker is built with.
MaxThreshold == 2
\* Most failures a breaker run records.
MaxFailures == 3
\* The breaker's recovery timeout (cb.timeout), in clock ticks.
RecoveryTimeout == 2
\* Most Execute calls that run their wrapped function at the same time.
MaxInflight == 2
\* The cache's time to live (cm.ttl), in clock ticks.
CacheTTL == 2

\* Requests the HTTP handler answers in one run.
MaxRequests == 2

\* Workers probing links at the same time, and probes started in one run.
MaxProbers == 2
MaxInvocations == 3

\* The longest link list handed to the AnalysisWorkerPool batch.
MaxPoolLinks == 181

VARIABLES
    links,              \* the []string handed to analyzeLinksConcurrent
    pc,                 \* position of the calling goroutine
    workers,            \* number of worker goroutines started
    timeoutDuration,    \* batch deadline, in seconds
    timer,              \* time.After channel: "unset", "armed", "fired"
    jobs,               \* buffered channel of links
    jobsClosed,         \* close(jobs) happened
    results,            \* buffered channel of LinkResult
    resultsClosed,      \* close(results) happened
    wg,                 \* sync.WaitGroup counter: workers not yet exited
    idle,               \* number of workers at "for link := range jobs"
    busy,               \* bag of the links workers hold between take and send
    spc,                \* submitter goroutine: "idle", "submit", "exited"
    sidx,               \* submitter goroutine: index of the next link to send
    internalCount,
    externalCount,
    inaccessibleCount,
    resultsReceived,
    timedOut,           \* the collection loop left through the timeout case
    result,             \* the *AnalysisResult link counters
    received,           \* history: the outcomes the collection loop received
    linkCount,          \* policy evaluation: the link count n
    ppc,                \* policy evaluation: position
    probeLink,          \* link classification: the link string
    probeNet,           \* link classification: what the network answers
    probePc,            \* link classification: "off", "ready", "processed", "probed"
    probeOut,           \* link classification: the LinkResult of ProcessLink
    checkerCalls,       \* link classification: calls of isAccessibleChecker
    probeAccessible,    \* link classification: the bool of isLinkAccessible
    cbState,            \* CircuitBreaker.state: "Closed", "Open", "HalfOpen"
    failureCount,       \* CircuitBreaker.failureCount
    sinceFailure,       \* time.Since(cb.lastFailureTime), in ticks, saturating
    failureThreshold,   \* CircuitBreaker.failureThreshold
    successThreshold,   \* CircuitBreaker.successThreshold
    inflight,           \* Execute calls whose wrapped function is running
    lastOp,             \* the breaker call of the last step and what it returned
    consec,             \* history: failures recorded since the last success
    hoSucc,             \* history: successes recorded since Half-Open was entered
    cache,              \* CacheManager.cache: key -> CacheEntry
    pendingDelete,      \* bag of URLs of Get calls between RUnlock and Lock
    cacheOp,            \* the cache call of the last step and what it returned
    latest,             \* history: per URL, the latest Set and the time since
    reqMethod,          \* HTTP handler: r.Method of the last request
    reqURL,             \* HTTP handler: r.FormValue("url") of the last request
    analysis,           \* HTTP handler: what AnalyzeURLWithContext returned for it
    rrCode,             \* HTTP handler: the status written to the response
    analyses,           \* HTTP handler: calls of AnalyzeURLWithContext so far
    served,             \* HTTP handler: requests answered so far
    probers,            \* client pool: per worker, its position in isLinkAccessible and the link
    invocations,        \* client pool: calls of isLinkAccessible so far
    acquired,           \* client pool: calls of getHTTPClient so far
    released,           \* client pool: calls of putHTTPClient so far
    requestsSent,       \* client pool: calls of client.Do so far
    wpLinks,            \* worker pool: len(links) of the batch
    wpWorkers,          \* worker pool: wp.workers
    wpPc,               \* worker pool: position of the calling goroutine
    wpSubmitted,        \* worker pool: calls of SubmitJob so far
    jobQueue,           \* worker pool: number of jobs in wp.jobQueue
    wpHolding,          \* worker pool: workers inside processJob
    wpResults,          \* worker pool: number of results in wp.results
    wpReceived,         \* worker pool: resultsReceived of the collection loop
    wpAlive,            \* worker pool: wp.workerWg, workers not yet returned
    stopChan,           \* worker pool: "open" or "closed" (with it wp.jobQueue)
    wpTimer,            \* worker pool: time.After channel of the collection loop
    wpFallbacks,        \* worker pool: history, a job was processed in the caller
    calls,              \* analyzer: the AnalyzeURLWithContext calls in progress
    ActiveRequests,     \* analyzer: a.metrics.ActiveRequests
    started,            \* analyzer: calls of AnalyzeURLWithContext so far
    mwPc,               \* timeout middleware: position of the middleware's goroutine
    handlerPc,          \* timeout middleware: position of the goroutine running next.ServeHTTP
    handlerCode,        \* timeout middleware: status code the handler answers with
    ctxDone,            \* timeout middleware: ctx.Done() is closed
    doneChan,           \* timeout middleware: number of values in the channel done
    writes              \* timeout middleware: calls made on the ResponseWriter w, in order

vars == <<links, pc, workers, timeoutDuration, timer, jobs, jobsClosed, results,
          resultsClosed, wg, idle, busy, spc, sidx, internalCount, externalCount,
          inaccessibleCount, resultsReceived, timedOut, result, received,
          linkCount, ppc, probeLink, probeNet, probePc, probeOut, checkerCalls,
          probeAccessible, cbState, failureCount, sinceFailure, failureThreshold,
          successThreshold, inflight, lastOp, consec, hoSucc, cache,
          pendingDelete, cacheOp, latest,
          reqMethod, reqURL, analysis, rrCode, analyses, served,
          probers, invocations, acquired, released, requestsSent,
          wpLinks, wpWorkers, wpPc, wpSubmitted, jobQueue, wpHolding, wpResults, wpReceived, wpAlive, stopChan, wpTimer, wpFallbacks,
          calls, ActiveRequests, started,
          mwPc, handlerPc, handlerCode, ctxDone, doneChan, writes>>

\* The variables of the batch and policy runs.
batchVars == <<links, pc, workers, timeoutDuration, timer, jobs, jobsClosed,
               results, resultsClosed, wg, idle, busy, spc, sidx, internalCount,
               externalCount, inaccessibleCount, resultsReceived, timedOut,
               result, received, linkCount, ppc>>

\* The variables of the single-link classification runs.
probeVars == <<probeLink, probeNet, probePc, probeOut, checkerCalls,
               probeAccessible>>

\* The variables of the circuit breaker runs.
cbVars == <<cbState, failureCount, sinceFailure, failureThreshold,
            successThreshold, inflight, lastOp, consec, hoSucc>>

\* The variables of the cache runs.
cacheVars == <<cache, pendingDelete, cacheOp, latest>>

\* The variables of the HTTP handler runs.
handlerVars == <<reqMethod, reqURL, analysis, rrCode, analyses, served>>

\* The variables of the HTTP client pool runs.
poolVars == <<probers, invocations, acquired, released, requestsSent>>

\* The variables of the AnalysisWorkerPool runs.
wpVars == <<wpLinks, wpWorkers, wpPc, wpSubmitted, jobQueue, wpHolding, wpResults, wpReceived, wpAlive, stopChan, wpTimer, wpFallbacks>>

\* The variables of the AnalyzeURLWithContext runs (with them the breaker and the cache).
analyzerVars == <<calls, ActiveRequests, started>>

\* The variables of a request in the Timeout middleware.
timeoutVars == <<mwPc, handlerPc, handlerCode, ctxDone, doneChan, writes>>

\* Everything outside the batch and policy runs.
moreVars == <<probeVars, cbVars, cacheVars, handlerVars, poolVars, wpVars, analyzerVars, timeoutVars>>

\* Everything outside the classification, the breaker and the cache runs.
outsideProbe == <<batchVars, cbVars, cacheVars, handlerVars, poolVars, wpVars, analyzerVars, timeoutVars>>
outsideBreaker == <<batchVars, probeVars, cacheVars, handlerVars, poolVars, wpVars, analyzerVars, timeoutVars>>
outsideCache == <<batchVars, probeVars, cbVars, handlerVars, poolVars, wpVars, analyzerVars, timeoutVars>>

\* Everything outside the HTTP handler runs.
outsideHandler == <<batchVars, probeVars, cbVars, cacheVars, poolVars, wpVars, analyzerVars, timeoutVars>>

\* Everything outside the HTTP client pool runs.
outsideClientPool == <<batchVars, probeVars, cbVars, cacheVars, handlerVars, wpVars, analyzerVars, timeoutVars>>

\* Everything outside the AnalysisWorkerPool runs.
outsideWorkerPool == <<batchVars, probeVars, cbVars, cacheVars, handlerVars, poolVars, analyzerVars, timeoutVars>>

\* Everything outside the AnalyzeURLWithContext runs, which use the breaker
\* and the cache.
outsideAnalyzer == <<batchVars, probeVars, handlerVars, poolVars, wpVars, timeoutVars>>

\* Everything outside the Timeout middleware.
outsideTimeout == <<batchVars, probeVars, cbVars, cacheVars, handlerVars, poolVars, wpVars, analyzerVars>>

---------------------------------------------------------------------------
(* Links and URLs *)

\* Tokens that are a URL scheme followed by its colon.
SchemeTokens == {"https:", "http:", "javascript:", "mailto:", "tel:", "ftp:",
                 "file:", "data:", "blob:", "chrome:", "moz-extension:"}

\* The hrefs the batch model draws its link lists from.
LinkUniverse == { << >>,
                  <<"#", "frag">>,
                  <<"mailto:", "x@y.com">>,
                  <<"/a">>,
                  <<"https:", "//", "site.test", "/b">>,
                  <<"https:", "//", "other.test", "/c">>,
                  <<"%zz">> }

\* The page's base URL, https://site.test
baseURL == [Scheme |-> "https", Host |-> "site.test"]

\* strings.HasPrefix(link, tok) for a one-token prefix.
HasPrefix(link, tok) == Len(link) >= 1 /\ link[1] = tok

\* The scheme named by a scheme token ("https:" gives "https").
SchemeOf(tok) ==
    CASE tok = "https:" -> "https"
      [] tok = "http:" -> "http"
      [] tok = "javascript:" -> "javascript"
      [] tok = "mailto:" -> "mailto"
      [] tok = "tel:" -> "tel"
      [] tok = "ftp:" -> "ftp"
      [] tok = "file:" -> "file"
      [] tok = "data:" -> "data"
      [] tok = "blob:" -> "blob"
      [] tok = "chrome:" -> "chrome"
      [] tok = "moz-extension:" -> "moz-extension"
      [] OTHER -> ""

\* url.Parse(link): an invalid percent-escape is an error; a leading scheme
\* token gives the scheme; "//" introduces the host; without "//" (a path,
\* or an opaque URL such as mailto:x@y.com) the host is empty.  Rest is
\* what follows the host (the path), or the whole remainder without a host.
urlParse(link) ==
    IF \E i \in 1..Len(link) : link[i] = "%zz"
    THEN [err |-> TRUE, Scheme |-> "", Host |-> "", Rest |-> << >>]
    ELSE LET hasScheme == Len(link) >= 1 /\ link[1] \in SchemeTokens
             rest == IF hasScheme THEN Tail(link) ELSE link
             hasHost == Len(rest) >= 2 /\ rest[1] = "//"
         IN  [err |-> FALSE,
              Scheme |-> IF hasScheme THEN SchemeOf(link[1]) ELSE "",
              Host |-> IF hasHost THEN rest[2] ELSE "",
              Rest |-> IF hasHost THEN SubSeq(rest, 3, Len(rest)) ELSE rest]

\* (*URL).IsAbs
IsAbs(u) == u.Scheme # ""

\* (*URL).ResolveReference: a reference with a scheme or a host keeps its
\* own host; otherwise it inherits scheme and host of the base.
ResolveReference(base, ref) ==
    IF ref.Scheme # "" THEN ref
    ELSE IF ref.Host # ""
         THEN [ref EXCEPT !.Scheme = base.Scheme]
         ELSE [ref EXCEPT !.Scheme = base.Scheme, !.Host = base.Host]

\* (*URL).Hostname
Hostname(u) == u.Host

\* LinkProcessor.IsSpecialProtocol
IsSpecialProtocol(link) ==
    \E p \in {"javascript:", "mailto:", "tel:", "ftp:", "file:", "data:",
              "blob:", "chrome:", "moz-extension:"} : HasPrefix(link, p)

LinkResult(link, isInternal, isAccessible, error) ==
    [Link |-> link, IsInternal |-> isInternal, IsAccessible |-> isAccessible,
     Error |-> error]

\* processLinkParallel: the outcome of one link.
processLinkParallel(link, base) ==
    IF link = << >> \/ HasPrefix(link, "#")
    THEN LinkResult(link, FALSE, FALSE, FALSE)
    ELSE LET parsed == urlParse(link)
         IN  IF parsed.err
             THEN LinkResult(link, FALSE, FALSE, TRUE)
             ELSE LET linkURL == IF ~IsAbs(parsed)
                                 THEN ResolveReference(base, parsed)
                                 ELSE parsed
                      isInternal == Hostname(linkURL) = Hostname(base)
                  IN  LinkResult(link, isInternal, TRUE, FALSE)

---------------------------------------------------------------------------
(* The classifier with the accessibility probe: LinkProcessor.ProcessLink  *)
(* with Analyzer.isLinkAccessible as its checker.                          *)

\* (*URL).String: scheme and colon, then "//" and host, then the rest.
URLString(u) ==
    (IF u.Scheme # "" THEN <<CHOOSE t \in SchemeTokens : SchemeOf(t) = u.Scheme>>
     ELSE << >>)
    \o (IF u.Host # "" THEN <<"//", u.Host>> ELSE << >>)
    \o u.Rest

\* What client.Do can come back with for a well-formed http(s) request:
\* a transport error (err names it, the probe's 3 s deadline included) or
\* a response with a status code.
NetErrors == {"connection", "dns", "tls", "timeout"}
Statuses == {101, 200, 204, 301, 399, 400, 404, 500, 503}
NetOutcomes == [err : NetErrors, status : {0}] \cup [err : {"none"}, status : Statuses]

\* http.NewRequest("HEAD", link, nil) fails when the link does not parse.
NewRequestFails(link) == urlParse(link).err

\* client.Do(req): without an http or https scheme, or without a host, the
\* transport refuses the request; otherwise the network decides.
clientDo(link, net) ==
    LET u == urlParse(link)
    IN  IF u.Scheme \notin {"http", "https"} \/ u.Host = ""
        THEN [err |-> "unsupported", status |-> 0]
        ELSE net

\* isLinkAccessible as it was before the lower status bound: any response
\* below 400 counts.
isLinkAccessibleBelow400(link, net) ==
    IF IsSpecialProtocol(link) THEN FALSE
    ELSE IF NewRequestFails(link) THEN FALSE
    ELSE LET resp == clientDo(link, net)
         IN  IF resp.err # "none" THEN FALSE
             ELSE resp.status < 400

\* isLinkAccessible: the HEAD probe of one link.
isLinkAccessible(link, net) ==
    IF IsSpecialProtocol(link) THEN FALSE
    ELSE IF NewRequestFails(link) THEN FALSE
    ELSE LET resp == clientDo(link, net)
         IN  IF resp.err # "none" THEN FALSE
             ELSE resp.status >= 200 /\ resp.status < 400

\* ProcessLink with the checker asked for every parsed link.
ProcessLinkAlwaysChecks(link, base, net) ==
    IF link = << >> \/ HasPrefix(link, "#")
    THEN [result |-> LinkResult(link, FALSE, FALSE, FALSE), checkerCalls |-> 0]
    ELSE LET parsed == urlParse(link)
         IN  IF parsed.err
             THEN [result |-> LinkResult(link, FALSE, FALSE, TRUE), checkerCalls |-> 0]
             ELSE LET linkURL == IF ~IsAbs(parsed)
                                 THEN ResolveReference(base, parsed)
                                 ELSE parsed
                      isInternal == Hostname(linkURL) = Hostname(base)
                  IN  [result |-> LinkResult(link, isInternal,
                                     isLinkAccessible(URLString(linkURL), net), FALSE),
                       checkerCalls |-> 1]

\* LinkProcessor.ProcessLink(link, baseURL, a.isLinkAccessible): the outcome
\* and the number of times the checker was called.
ProcessLink(link, base, net) ==
    IF link = << >> \/ HasPrefix(link, "#")
    THEN [result |-> LinkResult(link, FALSE, FALSE, FALSE), checkerCalls |-> 0]
    ELSE LET parsed == urlParse(link)
         IN  IF parsed.err
             THEN [result |-> LinkResult(link, FALSE, FALSE, TRUE), checkerCalls |-> 0]
             ELSE LET linkURL == IF ~IsAbs(parsed)
                                 THEN ResolveReference(base, parsed)
                                 ELSE parsed
                      isInternal == Hostname(linkURL) = Hostname(base)
                  IN  IF ~isInternal
                      THEN [result |-> LinkResult(link, FALSE,
                                         isLinkAccessible(URLString(linkURL), net), FALSE),
                            checkerCalls |-> 1]
                      ELSE [result |-> LinkResult(link, TRUE, TRUE, FALSE),
                            checkerCalls |-> 0]

---------------------------------------------------------------------------
(* Policies *)

\* calculateOptimalWorkers with the first breakpoint off by one.
calculateOptimalWorkersOffByOne(n) ==
    IF n < 10 THEN 4
    ELSE IF n <= 25 THEN 12
    ELSE IF n <= 50 THEN 24
    ELSE IF n <= 100 THEN 48
    ELSE IF n <= 150 THEN 64
    ELSE IF n <= 200 THEN 80
    ELSE 100

\* calculateOptimalWorkers
calculateOptimalWorkers(n) ==
    IF n <= 10 THEN 4
    ELSE IF n <= 25 THEN 12
    ELSE IF n <= 50 THEN 24
    ELSE IF n <= 100 THEN 48
    ELSE IF n <= 150 THEN 64
    ELSE IF n <= 200 THEN 80
    ELSE 100

\* The deadline computation without the upper clamp.
batchTimeoutNoUpperClamp(n) ==
    LET d0 == n \div 3
    IN  IF d0 < 30 THEN 30 ELSE d0

\* timeoutDuration of analyzeLinksConcurrent, in seconds.
batchTimeout(n) ==
    LET d0 == n \div 3
        d1 == IF d0 < 30 THEN 30 ELSE d0
    IN  IF d1 > 45 THEN 45 ELSE d1

---------------------------------------------------------------------------
(* The aggregation of one outcome *)

Counts(i, e, x) == [internal |-> i, external |-> e, inaccessible |-> x]

\* The fold with the else of the internal/external branch missing.
FoldMissingElse(c, o) ==
    IF o.Error THEN c
    ELSE Counts(c.internal + (IF o.IsInternal THEN 1 ELSE 0),
                c.external + 1,
                c.inaccessible + (IF ~o.IsAccessible THEN 1 ELSE 0))

\* The fold with the accessibility test moved out of the external branch.
FoldInaccessibleAnywhere(c, o) ==
    IF o.Error THEN Counts(c.internal, c.external, c.inaccessible + 1)
    ELSE IF o.IsInternal THEN Counts(c.internal + 1, c.external, c.inaccessible)
    ELSE Counts(c.internal, c.external + 1,
                c.inaccessible + (IF ~o.IsAccessible THEN 1 ELSE 0))

\* A fold in which an error outcome discards the tallies so far.
FoldResetOnError(c, o) ==
    IF o.Error THEN Counts(0, 0, 0)
    ELSE IF o.IsInternal THEN Counts(c.internal + 1, c.external, c.inaccessible)
    ELSE Counts(c.internal, c.external + 1,
                IF ~o.IsAccessible THEN c.inaccessible + 1 ELSE c.inaccessible)

\* The body of case linkResult := <-results, after resultsReceived++.
Fold(c, o) ==
    IF o.Error THEN c
    ELSE IF o.IsInternal THEN Counts(c.internal + 1, c.external, c.inaccessible)
    ELSE Counts(c.internal, c.external + 1,
                c.inaccessible + (IF ~o.IsAccessible THEN 1 ELSE 0))

---------------------------------------------------------------------------
(* The batch: analyzeLinksConcurrent *)

\* jobs := make(chan string, len(links))
JobsCap == Len(links)

\* results := make(chan LinkResult, len(links))
ResultsCap == Len(links)

LinkLists == UNION {[1..n -> LinkUniverse] : n \in 0..MaxLinks}

\* The *AnalysisResult as analyzeDocumentWithContext hands it over: the
\* fields of the page are filled in by the traversal and by the fetch, the
\* three link counters still have their zero value.
resultAtEntry ==
    [URL |-> "https://site.test/page", HTMLVersion |-> "HTML5",
     PageTitle |-> "Title", HeadingCounts |-> <<1, 2, 0, 0, 0, 0>>,
     InternalLinks |-> 0, ExternalLinks |-> 0, InaccessibleLinks |-> 0,
     HasLoginForm |-> TRUE, Error |-> "nil", StatusCode |-> 200]

\* No batch and no policy evaluation.
BatchOff ==
    /\ links = << >>
    /\ pc = "off"
    /\ workers = 0
    /\ timeoutDuration = 0
    /\ timer = "unset"
    /\ jobs = << >>
    /\ jobsClosed = FALSE
    /\ results = << >>
    /\ resultsClosed = FALSE
    /\ wg = 0
    /\ idle = 0
    /\ busy = EmptyBag
    /\ spc = "idle"
    /\ sidx = 1
    /\ internalCount = 0
    /\ externalCount = 0
    /\ inaccessibleCount = 0
    /\ resultsReceived = 0
    /\ timedOut = FALSE
    /\ result = resultAtEntry
    /\ received = << >>
    /\ linkCount = 0
    /\ ppc = "off"

\* No single-link classification run.
ProbeOff ==
    /\ probeLink = << >>
    /\ probeNet = [err |-> "none", status |-> 0]
    /\ probePc = "off"
    /\ probeOut = LinkResult(<< >>, FALSE, FALSE, FALSE)
    /\ checkerCalls = 0
    /\ probeAccessible = FALSE

\* No circuit breaker constructed.
BreakerOff ==
    /\ cbState = "Closed"
    /\ failureCount = 0
    /\ sinceFailure = 0
    /\ failureThreshold = 0
    /\ successThreshold = 0
    /\ inflight = 0
    /\ lastOp = [op |-> "none", ret |-> "none"]
    /\ consec = 0
    /\ hoSucc = 0

\* An operation of the cache and its return values.
CacheOp(op, url, res, found, total, expired) ==
    [op |-> op, url |-> url, result |-> res, found |-> found, total |-> total,
     expired |-> expired]

\* No cache manager constructed.
CacheOff ==
    /\ cache = << >>
    /\ pendingDelete = EmptyBag
    /\ cacheOp = CacheOp("none", "-", "nil", FALSE, 0, 0)
    /\ latest = << >>

\* No request served.
HandlerOff ==
    /\ reqMethod = "-"
    /\ reqURL = "-"
    /\ analysis = [Error |-> "-", StatusCode |-> 0]
    /\ rrCode = 0
    /\ analyses = 0
    /\ served = 0

\* No probe running against the HTTP client pool.
ClientPoolOff ==
    /\ probers = << >>
    /\ invocations = 0
    /\ acquired = 0
    /\ released = 0
    /\ requestsSent = 0

\* No AnalysisWorkerPool.
WorkerPoolOff ==
    /\ wpLinks = 0
    /\ wpWorkers = 0
    /\ wpPc = "off"
    /\ wpSubmitted = 0
    /\ jobQueue = 0
    /\ wpHolding = 0
    /\ wpResults = 0
    /\ wpReceived = 0
    /\ wpAlive = 0
    /\ stopChan = "open"
    /\ wpTimer = "unset"
    /\ wpFallbacks = FALSE

\* No AnalyzeURLWithContext call.
AnalyzerOff ==
    /\ calls = << >>
    /\ ActiveRequests = 0
    /\ started = 0

\* No request in the Timeout middleware.
TimeoutOff ==
    /\ mwPc = "off"
    /\ handlerPc = "off"
    /\ handlerCode = 0
    /\ ctxDone = FALSE
    /\ doneChan = 0
    /\ writes = << >>

\* Nothing outside the batch and policy runs.
MoreOff == ProbeOff /\ BreakerOff /\ CacheOff /\ HandlerOff /\ ClientPoolOff /\ WorkerPoolOff /\ AnalyzerOff /\ TimeoutOff

Init ==
    /\ links \in LinkLists
    /\ pc = "call"
    /\ workers = 0
    /\ timeoutDuration = 0
    /\ timer = "unset"
    /\ jobs = << >>
    /\ jobsClosed = FALSE
    /\ results = << >>
    /\ resultsClosed = FALSE
    /\ wg = 0
    /\ idle = 0
    /\ busy = EmptyBag
    /\ spc = "idle"
    /\ sidx = 1
    /\ internalCount = 0
    /\ externalCount = 0
    /\ inaccessibleCount = 0
    /\ resultsReceived = 0
    /\ timedOut = FALSE
    /\ result = resultAtEntry
    /\ received = << >>
    /\ linkCount = 0
    /\ ppc = "off"
    /\ MoreOff

\* Entry with an empty list: return at once.
ReturnEmpty ==
    /\ pc = "call"
    /\ Len(links) = 0
    /\ pc' = "returned"
    /\ UNCHANGED <<links, workers, timeoutDuration, timer, jobs, jobsClosed,
                   results, resultsClosed, wg, idle, busy, spc, sidx, internalCount,
                   externalCount, inaccessibleCount, resultsReceived, timedOut,
                   result, received, linkCount, ppc, moreVars>>

\* Entry with links: size the pool, make the channels, start the workers and
\* the submitter, zero the counters, arm the timer.
Start ==
    /\ pc = "call"
    /\ Len(links) # 0
    /\ workers' = calculateOptimalWorkers(Len(links))
    /\ jobs' = << >>
    /\ results' = << >>
    /\ wg' = workers'
    /\ idle' = workers'
    /\ busy' = EmptyBag
    /\ spc' = "submit"
    /\ sidx' = 1
    /\ internalCount' = 0
    /\ externalCount' = 0
    /\ inaccessibleCount' = 0
    /\ timeoutDuration' = batchTimeout(Len(links))
    /\ timer' = "armed"
    /\ resultsReceived' = 0
    /\ pc' = "loop"
    /\ UNCHANGED <<links, jobsClosed, resultsClosed, timedOut, result, received,
                   linkCount, ppc, moreVars>>

\* A worker that reads the head of the job queue without removing it.
WorkerTakePeek ==
    /\ idle > 0
    /\ jobs # << >>
    /\ busy' = busy (+) SetToBag({Head(jobs)})
    /\ idle' = idle - 1
    /\ UNCHANGED <<links, pc, workers, timeoutDuration, timer, jobs, jobsClosed,
                   results, resultsClosed, wg, spc, sidx, internalCount,
                   externalCount, inaccessibleCount, resultsReceived, timedOut,
                   result, received, linkCount, ppc, moreVars>>

\* Worker: for link := range jobs, one link taken.  The worker goroutines
\* are the same closure and never use workerID, so the pool is the number
\* of workers waiting at range plus the bag of links being processed.
WorkerTake ==
    /\ idle > 0
    /\ jobs # << >>
    /\ busy' = busy (+) SetToBag({Head(jobs)})
    /\ jobs' = Tail(jobs)
    /\ idle' = idle - 1
    /\ UNCHANGED <<links, pc, workers, timeoutDuration, timer, jobsClosed,
                   results, resultsClosed, wg, spc, sidx, internalCount,
                   externalCount, inaccessibleCount, resultsReceived, timedOut,
                   result, received, linkCount, ppc, moreVars>>

\* A worker that gives up on a link it cannot classify: it leaves its loop
\* without sending an outcome (deferred wg.Done).
WorkerSendAbortOnError(link) ==
    /\ BagIn(link, busy)
    /\ Len(results) < ResultsCap
    /\ ~resultsClosed
    /\ busy' = busy (-) SetToBag({link})
    /\ IF processLinkParallel(link, baseURL).Error
       THEN /\ wg' = wg - 1
            /\ UNCHANGED <<results, idle>>
       ELSE /\ results' = Append(results, processLinkParallel(link, baseURL))
            /\ idle' = idle + 1
            /\ wg' = wg
    /\ UNCHANGED <<links, pc, workers, timeoutDuration, timer, jobs, jobsClosed,
                   resultsClosed, spc, sidx, internalCount, externalCount,
                   inaccessibleCount, resultsReceived, timedOut, result,
                   received, linkCount, ppc, moreVars>>

\* Worker: process the link and send its outcome; the send blocks while the
\* results channel is full.
WorkerSend(link) ==
    /\ BagIn(link, busy)
    /\ Len(results) < ResultsCap
    /\ ~resultsClosed
    /\ results' = Append(results, processLinkParallel(link, baseURL))
    /\ busy' = busy (-) SetToBag({link})
    /\ idle' = idle + 1
    /\ UNCHANGED <<links, pc, workers, timeoutDuration, timer, jobs, jobsClosed,
                   resultsClosed, wg, spc, sidx, internalCount, externalCount,
                   inaccessibleCount, resultsReceived, timedOut, result,
                   received, linkCount, ppc, moreVars>>

\* A worker leaving its range loop without the deferred wg.Done.
WorkerExitWithoutDone ==
    /\ idle > 0
    /\ jobs = << >>
    /\ jobsClosed
    /\ idle' = idle - 1
    /\ UNCHANGED <<links, pc, workers, timeoutDuration, timer, jobs, jobsClosed,
                   results, resultsClosed, wg, busy, spc, sidx, internalCount,
                   externalCount, inaccessibleCount, resultsReceived, timedOut,
                   result, received, linkCount, ppc, moreVars>>

\* Worker: the range ends when jobs is closed and drained; deferred wg.Done.
WorkerExit ==
    /\ idle > 0
    /\ jobs = << >>
    /\ jobsClosed
    /\ idle' = idle - 1
    /\ wg' = wg - 1
    /\ UNCHANGED <<links, pc, workers, timeoutDuration, timer, jobs, jobsClosed,
                   results, resultsClosed, busy, spc, sidx, internalCount,
                   externalCount, inaccessibleCount, resultsReceived, timedOut,
                   result, received, linkCount, ppc, moreVars>>

\* Submitter: jobs <- link, blocking while the jobs channel is full.
SubmitJob ==
    /\ spc = "submit"
    /\ sidx <= Len(links)
    /\ Len(jobs) < JobsCap
    /\ jobs' = Append(jobs, links[sidx])
    /\ sidx' = sidx + 1
    /\ UNCHANGED <<links, pc, workers, timeoutDuration, timer, jobsClosed,
                   results, resultsClosed, wg, idle, busy, spc, internalCount,
                   externalCount, inaccessibleCount, resultsReceived, timedOut,
                   result, received, linkCount, ppc, moreVars>>

\* The submitter ending without close(jobs).
SubmitCloseForgotten ==
    /\ spc = "submit"
    /\ sidx > Len(links)
    /\ spc' = "exited"
    /\ UNCHANGED <<links, pc, workers, timeoutDuration, timer, jobs, jobsClosed,
                   results, resultsClosed, wg, idle, busy, sidx, internalCount,
                   externalCount, inaccessibleCount, resultsReceived, timedOut,
                   result, received, linkCount, ppc, moreVars>>

\* Submitter: close(jobs) after the last link.
SubmitClose ==
    /\ spc = "submit"
    /\ sidx > Len(links)
    /\ jobsClosed' = TRUE
    /\ spc' = "exited"
    /\ UNCHANGED <<links, pc, workers, timeoutDuration, timer, jobs, results,
                   resultsClosed, wg, idle, busy, sidx, internalCount, externalCount,
                   inaccessibleCount, resultsReceived, timedOut, result,
                   received, linkCount, ppc, moreVars>>

\* The runtime timer of time.After(timeoutDuration) fires.
TimerFire ==
    /\ timer = "armed"
    /\ timer' = "fired"
    /\ UNCHANGED <<links, pc, workers, timeoutDuration, jobs, jobsClosed,
                   results, resultsClosed, wg, idle, busy, spc, sidx, internalCount,
                   externalCount, inaccessibleCount, resultsReceived, timedOut,
                   result, received, linkCount, ppc, moreVars>>

\* A collection loop written without its condition: after a result it goes
\* back to the select whatever the count.
ReceiveNoLoopTest ==
    /\ pc = "loop"
    /\ results # << >>
    /\ LET o == Head(results)
           c == Fold(Counts(internalCount, externalCount, inaccessibleCount), o)
       IN  /\ internalCount' = c.internal
           /\ externalCount' = c.external
           /\ inaccessibleCount' = c.inaccessible
           /\ received' = Append(received, o)
    /\ results' = Tail(results)
    /\ resultsReceived' = resultsReceived + 1
    /\ pc' = "loop"
    /\ UNCHANGED <<links, workers, timeoutDuration, timer, jobs, jobsClosed,
                   resultsClosed, wg, idle, busy, spc, sidx, timedOut, result,
                   linkCount, ppc, moreVars>>

\* Collection loop, case linkResult := <-results; the loop condition is
\* tested again after the body.
Receive ==
    /\ pc = "loop"
    /\ resultsReceived < Len(links)
    /\ results # << >>
    /\ LET o == Head(results)
           c == Fold(Counts(internalCount, externalCount, inaccessibleCount), o)
       IN  /\ internalCount' = c.internal
           /\ externalCount' = c.external
           /\ inaccessibleCount' = c.inaccessible
           /\ received' = Append(received, o)
    /\ results' = Tail(results)
    /\ resultsReceived' = resultsReceived + 1
    /\ pc' = IF resultsReceived' < Len(links) THEN "loop" ELSE "wait"
    /\ UNCHANGED <<links, workers, timeoutDuration, timer, jobs, jobsClosed,
                   resultsClosed, wg, idle, busy, spc, sidx, timedOut, result,
                   linkCount, ppc, moreVars>>

\* Collection loop, case <-timeout: goto done.
Timeout ==
    /\ pc = "loop"
    /\ resultsReceived < Len(links)
    /\ timer = "fired"
    /\ timedOut' = TRUE
    /\ pc' = "wait"
    /\ UNCHANGED <<links, workers, timeoutDuration, timer, jobs, jobsClosed,
                   results, resultsClosed, wg, idle, busy, spc, sidx, internalCount,
                   externalCount, inaccessibleCount, resultsReceived, result,
                   received, linkCount, ppc, moreVars>>

\* The end of the call with the outcomes still buffered folded in as well.
ReturnDraining ==
    /\ pc = "wait"
    /\ wg = 0
    /\ resultsClosed' = TRUE
    /\ LET c == IF results = << >>
                THEN Counts(internalCount, externalCount, inaccessibleCount)
                ELSE Fold(Counts(internalCount, externalCount, inaccessibleCount),
                          Head(results))
       IN  result' = [result EXCEPT !.InternalLinks = c.internal,
                                    !.ExternalLinks = c.external,
                                    !.InaccessibleLinks = c.inaccessible]
    /\ pc' = "returned"
    /\ UNCHANGED <<links, workers, timeoutDuration, timer, jobs, jobsClosed,
                   results, wg, idle, busy, spc, sidx, internalCount, externalCount,
                   inaccessibleCount, resultsReceived, timedOut, received,
                   linkCount, ppc, moreVars>>

\* The end of the call closing the results channel without wg.Wait().
ReturnWithoutWait ==
    /\ pc = "wait"
    /\ resultsClosed' = TRUE
    /\ result' = [result EXCEPT !.InternalLinks = internalCount,
                                !.ExternalLinks = externalCount,
                                !.InaccessibleLinks = inaccessibleCount]
    /\ pc' = "returned"
    /\ UNCHANGED <<links, workers, timeoutDuration, timer, jobs, jobsClosed,
                   results, wg, idle, busy, spc, sidx, internalCount, externalCount,
                   inaccessibleCount, resultsReceived, timedOut, received,
                   linkCount, ppc, moreVars>>

\* The end of the call reporting a fired deadline as an error of the page.
ReturnMarksTimeout ==
    /\ pc = "wait"
    /\ wg = 0
    /\ resultsClosed' = TRUE
    /\ result' = [result EXCEPT !.InternalLinks = internalCount,
                                !.ExternalLinks = externalCount,
                                !.InaccessibleLinks = inaccessibleCount,
                                !.Error = IF timedOut THEN "TIMEOUT_ERROR"
                                          ELSE @]
    /\ pc' = "returned"
    /\ UNCHANGED <<links, workers, timeoutDuration, timer, jobs, jobsClosed,
                   results, wg, idle, busy, spc, sidx, internalCount, externalCount,
                   inaccessibleCount, resultsReceived, timedOut, received,
                   linkCount, ppc, moreVars>>

\* done: wg.Wait(), close(results), write the counters to the result.
Return ==
    /\ pc = "wait"
    /\ wg = 0
    /\ resultsClosed' = TRUE
    /\ result' = [result EXCEPT !.InternalLinks = internalCount,
                                !.ExternalLinks = externalCount,
                                !.InaccessibleLinks = inaccessibleCount]
    /\ pc' = "returned"
    /\ UNCHANGED <<links, workers, timeoutDuration, timer, jobs, jobsClosed,
                   results, wg, idle, busy, spc, sidx, internalCount, externalCount,
                   inaccessibleCount, resultsReceived, timedOut, received,
                   linkCount, ppc, moreVars>>

Next ==
    \/ ReturnEmpty
    \/ Start
    \/ WorkerTake
    \/ \E link \in LinkUniverse : WorkerSend(link)
    \/ WorkerExit
    \/ SubmitJob
    \/ SubmitClose
    \/ TimerFire
    \/ Receive
    \/ Timeout
    \/ Return

Spec == Init /\ [][Next]_vars

\* The Go scheduler runs every runnable goroutine and the runtime timer
\* fires: weak fairness of the caller, the worker pool, the submitter and
\* the timer.
Fairness ==
    /\ WF_vars(ReturnEmpty \/ Start \/ Receive \/ Timeout \/ Return)
    /\ WF_vars(WorkerTake \/ WorkerExit \/ \E link \in LinkUniverse : WorkerSend(link))
    /\ WF_vars(SubmitJob \/ SubmitClose)
    /\ WF_vars(TimerFire)

FairSpec == Spec /\ Fairness

---------------------------------------------------------------------------
(* The policies evaluated on every link count 1..MaxLinkCount *)

PolicyInit ==
    /\ links = << >>
    /\ pc = "policy"
    /\ workers = 0
    /\ timeoutDuration = 0
    /\ timer = "unset"
    /\ jobs = << >>
    /\ jobsClosed = FALSE
    /\ results = << >>
    /\ resultsClosed = FALSE
    /\ wg = 0
    /\ idle = 0
    /\ busy = EmptyBag
    /\ spc = "idle"
    /\ sidx = 1
    /\ internalCount = 0
    /\ externalCount = 0
    /\ inaccessibleCount = 0
    /\ resultsReceived = 0
    /\ timedOut = FALSE
    /\ result = resultAtEntry
    /\ received = << >>
    /\ linkCount \in 1..MaxLinkCount
    /\ ppc = "workers"
    /\ MoreOff

\* workers := a.calculateOptimalWorkers(len(links))
PolicyWorkers ==
    /\ ppc = "workers"
    /\ workers' = calculateOptimalWorkers(linkCount)
    /\ ppc' = "timeout"
    /\ UNCHANGED <<links, pc, timeoutDuration, timer, jobs, jobsClosed, results,
                   resultsClosed, wg, idle, busy, spc, sidx, internalCount,
                   externalCount, inaccessibleCount, resultsReceived, timedOut,
                   result, received, linkCount, moreVars>>

\* timeoutDuration := len(links)/3 seconds, clamped
PolicyTimeout ==
    /\ ppc = "timeout"
    /\ timeoutDuration' = batchTimeout(linkCount)
    /\ ppc' = "done"
    /\ UNCHANGED <<links, pc, workers, timer, jobs, jobsClosed, results,
                   resultsClosed, wg, idle, busy, spc, sidx, internalCount,
                   externalCount, inaccessibleCount, resultsReceived, timedOut,
                   result, received, linkCount, moreVars>>

PolicyNext == PolicyWorkers \/ PolicyTimeout

PolicySpec == PolicyInit /\ [][PolicyNext]_vars

---------------------------------------------------------------------------
(* One link classified by ProcessLink, or probed by isLinkAccessible, on   *)
(* every link of ProbeLinks and every answer of the network.               *)

\* The links classified: those of the batch model, an http link, an ftp
\* link with a host and a scheme-relative link.
ProbeLinks ==
    LinkUniverse \cup { <<"http:", "//", "other.test", "/d">>,
                        <<"ftp:", "//", "files.test", "/f">>,
                        <<"//", "cdn.test", "/x">>,
                        <<"//", "site.test", "/y">> }

ProbeInit ==
    /\ BatchOff
    /\ TimeoutOff
    /\ AnalyzerOff
    /\ WorkerPoolOff
    /\ ClientPoolOff
    /\ HandlerOff
    /\ BreakerOff
    /\ CacheOff
    /\ probeLink \in ProbeLinks
    /\ probeNet \in NetOutcomes
    /\ probePc = "ready"
    /\ probeOut = LinkResult(<< >>, FALSE, FALSE, FALSE)
    /\ checkerCalls = 0
    /\ probeAccessible = FALSE

\* linkProcessor.ProcessLink(link, baseURL, a.isLinkAccessible)
CallProcessLink ==
    /\ probePc = "ready"
    /\ LET r == ProcessLink(probeLink, baseURL, probeNet)
       IN  /\ probeOut' = r.result
           /\ checkerCalls' = r.checkerCalls
    /\ probePc' = "processed"
    /\ UNCHANGED <<probeLink, probeNet, probeAccessible, outsideProbe>>

\* a.isLinkAccessible(link)
CallIsLinkAccessible ==
    /\ probePc = "ready"
    /\ probeAccessible' = isLinkAccessible(probeLink, probeNet)
    /\ probePc' = "probed"
    /\ UNCHANGED <<probeLink, probeNet, probeOut, checkerCalls, outsideProbe>>

ProbeNext == CallProcessLink \/ CallIsLinkAccessible

ProbeSpec == ProbeInit /\ [][ProbeNext]_vars

---------------------------------------------------------------------------
(* The circuit breaker (analyzer/circuit_breaker.go).  Every method holds  *)
(* cb.mutex for its whole body, so a method is one step; Execute releases  *)
(* the mutex between CanExecute and OnSuccess/OnFailure, so it is two      *)
(* steps with the wrapped function running in between.                     *)

\* The switch of CanExecute: the bool returned and the state left behind.
canExecuteAlwaysAdmits(st, since) ==
    IF st = "Open" THEN [ok |-> TRUE, state |-> "HalfOpen"]
    ELSE [ok |-> TRUE, state |-> st]

canExecute(st, since) ==
    CASE st = "Closed" -> [ok |-> TRUE, state |-> st]
      [] st = "Open" -> IF since >= RecoveryTimeout
                        THEN [ok |-> TRUE, state |-> "HalfOpen"]
                        ELSE [ok |-> FALSE, state |-> st]
      [] st = "HalfOpen" -> [ok |-> TRUE, state |-> st]
      [] OTHER -> [ok |-> FALSE, state |-> st]

\* OnSuccess that leaves a Half-Open breaker Half-Open.
onSuccessStaysHalfOpen(st, fc) ==
    CASE st = "Closed" -> [state |-> st, failureCount |-> 0]
      [] st = "HalfOpen" -> [state |-> st, failureCount |-> 0]
      [] OTHER -> [state |-> st, failureCount |-> fc]

\* OnSuccess that closes a Half-Open breaker without clearing the count.
onSuccessKeepsCount(st, fc) ==
    CASE st = "Closed" -> [state |-> st, failureCount |-> 0]
      [] st = "HalfOpen" -> [state |-> "Closed", failureCount |-> fc]
      [] OTHER -> [state |-> st, failureCount |-> fc]

\* The switch of OnSuccess.
onSuccess(st, fc) ==
    CASE st = "Closed" -> [state |-> st, failureCount |-> 0]
      [] st = "HalfOpen" -> [state |-> "Closed", failureCount |-> 0]
      [] OTHER -> [state |-> st, failureCount |-> fc]

\* OnFailure that opens one failure late.
onFailureOpensLate(st, fc, thr) ==
    IF st = "Closed" /\ fc + 1 > thr
    THEN [state |-> "Open", failureCount |-> fc + 1]
    ELSE IF st = "HalfOpen"
         THEN [state |-> "Open", failureCount |-> fc + 1]
         ELSE [state |-> st, failureCount |-> fc + 1]

\* The body of OnFailure.
onFailure(st, fc, thr) ==
    IF st = "Closed" /\ fc + 1 >= thr
    THEN [state |-> "Open", failureCount |-> fc + 1]
    ELSE IF st = "HalfOpen"
         THEN [state |-> "Open", failureCount |-> fc + 1]
         ELSE [state |-> st, failureCount |-> fc + 1]

\* NewCircuitBreaker(failureThreshold, timeout, successThreshold): Closed,
\* no failure counted, lastFailureTime the zero time (long ago).
BreakerInit ==
    /\ BatchOff
    /\ TimeoutOff
    /\ AnalyzerOff
    /\ WorkerPoolOff
    /\ ClientPoolOff
    /\ HandlerOff
    /\ ProbeOff
    /\ CacheOff
    /\ cbState = "Closed"
    /\ failureCount = 0
    /\ sinceFailure = RecoveryTimeout + 1
    /\ failureThreshold \in 1..MaxThreshold
    /\ successThreshold \in 1..MaxThreshold
    /\ inflight = 0
    /\ lastOp = [op |-> "NewCircuitBreaker", ret |-> "-"]
    /\ consec = 0
    /\ hoSucc = 0

\* cb.CanExecute()
CanExecute ==
    /\ LET r == canExecute(cbState, sinceFailure)
       IN  /\ cbState' = r.state
           /\ lastOp' = [op |-> "CanExecute", ret |-> IF r.ok THEN "true" ELSE "false"]
           /\ hoSucc' = IF cbState = "Open" /\ r.state = "HalfOpen" THEN 0 ELSE hoSucc
    /\ UNCHANGED <<failureCount, sinceFailure, failureThreshold, successThreshold,
                   inflight, consec, outsideBreaker>>

\* cb.Execute(fn) up to the call of fn: refused with the NETWORK_ERROR, or
\* fn starts.
ExecuteBegin ==
    /\ inflight < MaxInflight
    /\ LET r == canExecute(cbState, sinceFailure)
       IN  /\ cbState' = r.state
           /\ hoSucc' = IF cbState = "Open" /\ r.state = "HalfOpen" THEN 0 ELSE hoSucc
           /\ IF r.ok
              THEN /\ inflight' = inflight + 1
                   /\ lastOp' = [op |-> "Execute", ret |-> "fn"]
              ELSE /\ inflight' = inflight
                   /\ lastOp' = [op |-> "Execute", ret |-> "NETWORK_ERROR"]
    /\ UNCHANGED <<failureCount, sinceFailure, failureThreshold, successThreshold,
                   consec, outsideBreaker>>

\* A success is recorded: the body of OnSuccess.
RecordSuccess(op, ret) ==
    /\ LET r == onSuccess(cbState, failureCount)
       IN  /\ cbState' = r.state
           /\ failureCount' = r.failureCount
    /\ consec' = 0
    /\ hoSucc' = IF cbState = "HalfOpen" THEN hoSucc + 1 ELSE hoSucc
    /\ lastOp' = [op |-> op, ret |-> ret]
    /\ UNCHANGED <<sinceFailure, failureThreshold, successThreshold, outsideBreaker>>

\* A failure is recorded: the body of OnFailure, lastFailureTime = now.
RecordFailure(op, ret) ==
    /\ failureCount < MaxFailures
    /\ LET r == onFailure(cbState, failureCount, failureThreshold)
       IN  /\ cbState' = r.state
           /\ failureCount' = r.failureCount
    /\ sinceFailure' = 0
    /\ consec' = consec + 1
    /\ lastOp' = [op |-> op, ret |-> ret]
    /\ UNCHANGED <<failureThreshold, successThreshold, hoSucc, outsideBreaker>>

\* cb.Execute(fn): fn returned nil, cb.OnSuccess(), return nil.
ExecuteSucceeds ==
    /\ inflight > 0
    /\ inflight' = inflight - 1
    /\ RecordSuccess("ExecuteReturn", "nil")

\* cb.Execute(fn): fn returned an error, cb.OnFailure(), return err.
ExecuteFails ==
    /\ inflight > 0
    /\ inflight' = inflight - 1
    /\ RecordFailure("ExecuteReturn", "err")

\* cb.OnSuccess() called directly.
OnSuccess ==
    /\ RecordSuccess("OnSuccess", "-")
    /\ UNCHANGED inflight

\* cb.OnFailure() called directly.
OnFailure ==
    /\ RecordFailure("OnFailure", "-")
    /\ UNCHANGED inflight

\* cb.Reset()
Reset ==
    /\ cbState' = "Closed"
    /\ failureCount' = 0
    /\ consec' = 0
    /\ lastOp' = [op |-> "Reset", ret |-> "-"]
    /\ UNCHANGED <<sinceFailure, failureThreshold, successThreshold, inflight,
                   hoSucc, outsideBreaker>>

\* One tick of the clock.
Tick ==
    /\ sinceFailure' = IF sinceFailure <= RecoveryTimeout THEN sinceFailure + 1
                       ELSE sinceFailure
    /\ lastOp' = [op |-> "Tick", ret |-> "-"]
    /\ UNCHANGED <<cbState, failureCount, failureThreshold, successThreshold,
                   inflight, consec, hoSucc, outsideBreaker>>

BreakerNext ==
    \/ CanExecute
    \/ ExecuteBegin
    \/ ExecuteSucceeds
    \/ ExecuteFails
    \/ OnSuccess
    \/ OnFailure
    \/ Reset
    \/ Tick

BreakerSpec == BreakerInit /\ [][BreakerNext]_vars

---------------------------------------------------------------------------
(* The result cache (analyzer/cache.go).  Set, clearExpired and GetStats   *)
(* hold cm.mutex for their whole body.  Get reads under the read lock and, *)
(* for an expired entry, releases it, takes the write lock and deletes:    *)
(* two steps.  The callers' Set, Get and GetStats calls come one after     *)
(* another; the cleanup goroutine and the clock run at any time.           *)

\* The URLs and results the cache runs use.
CacheURLs == {"a.test", "b.test"}
CacheResults == {"r1", "r2"}

\* generateCacheKey that gives every URL the same key.
generateCacheKeyCollides(url) == <<"md5", "d41d8cd9">>

\* generateCacheKey: the hex MD5 of the URL, one key per URL.
generateCacheKey(url) == <<"md5", url>>

\* Time since the entry's Timestamp exceeds its TTL.
IsExpired(entry) == entry.Age > entry.TTL

\* The read part of Get that ignores the age of the entry.
getLookupIgnoresExpiry(c, url) ==
    LET key == generateCacheKey(url)
    IN  IF key \notin DOMAIN c
        THEN [found |-> FALSE, result |-> "nil", expired |-> FALSE]
        ELSE [found |-> TRUE, result |-> c[key].Result, expired |-> FALSE]

\* The read part of Get: absent, expired, or a hit.
getLookup(c, url) ==
    LET key == generateCacheKey(url)
    IN  IF key \notin DOMAIN c
        THEN [found |-> FALSE, result |-> "nil", expired |-> FALSE]
        ELSE IF IsExpired(c[key])
             THEN [found |-> FALSE, result |-> "nil", expired |-> TRUE]
             ELSE [found |-> TRUE, result |-> c[key].Result, expired |-> FALSE]

\* delete(cm.cache, key)
MapDelete(c, key) == [k \in DOMAIN c \ {key} |-> c[k]]

\* cm.cache[key] = entry
MapPut(c, key, entry) ==
    [k \in DOMAIN c \cup {key} |-> IF k = key THEN entry ELSE c[k]]

\* One more tick on a time span that is compared with the TTL only.
Older(age) == IF age <= CacheTTL THEN age + 1 ELSE age

\* NewCacheManager(ttl, logger): an empty map.
CacheInit ==
    /\ BatchOff
    /\ TimeoutOff
    /\ AnalyzerOff
    /\ WorkerPoolOff
    /\ ClientPoolOff
    /\ HandlerOff
    /\ ProbeOff
    /\ BreakerOff
    /\ cache = << >>
    /\ pendingDelete = EmptyBag
    /\ cacheOp = CacheOp("NewCacheManager", "-", "nil", FALSE, 0, 0)
    /\ latest = [u \in CacheURLs |-> [set |-> FALSE, result |-> "nil", age |-> 0]]

\* No Get call is between its read and its delete.
NoCallInProgress == pendingDelete = EmptyBag

\* cm.Set(url, result)
Set(url, res) ==
    /\ cache' = MapPut(cache, generateCacheKey(url),
                       [Result |-> res, Age |-> 0, TTL |-> CacheTTL])
    /\ latest' = [latest EXCEPT ![url] = [set |-> TRUE, result |-> res, age |-> 0]]
    /\ cacheOp' = CacheOp("Set", url, res, FALSE, 0, 0)
    /\ UNCHANGED <<pendingDelete, outsideCache>>

\* cm.Get(url) under the read lock: a miss or a hit returns; an expired
\* entry makes the call release the read lock and queue for the write lock.
GetRead(url) ==
    /\ LET r == getLookup(cache, url)
       IN  IF r.expired
           THEN /\ pendingDelete' = pendingDelete (+) SetToBag({url})
                /\ cacheOp' = CacheOp("GetExpired", url, "nil", FALSE, 0, 0)
           ELSE /\ pendingDelete' = pendingDelete
                /\ cacheOp' = CacheOp("Get", url, r.result, r.found, 0, 0)
    /\ UNCHANGED <<cache, latest, outsideCache>>

\* cm.Get(url) under the write lock: delete the key, return (nil, false).
GetDelete(url) ==
    /\ BagIn(url, pendingDelete)
    /\ cache' = MapDelete(cache, generateCacheKey(url))
    /\ pendingDelete' = pendingDelete (-) SetToBag({url})
    /\ cacheOp' = CacheOp("GetDeleted", url, "nil", FALSE, 0, 0)
    /\ UNCHANGED <<latest, outsideCache>>

\* cm.clearExpired(), run by the cleanup goroutine on its ticker.
ClearExpired ==
    /\ cache' = [k \in {x \in DOMAIN cache : ~IsExpired(cache[x])} |-> cache[k]]
    /\ cacheOp' = CacheOp("clearExpired", "-", "nil", FALSE, 0, 0)
    /\ UNCHANGED <<pendingDelete, latest, outsideCache>>

\* cm.GetStats(): the number of entries and the number of expired ones.
GetStats ==
    /\ cacheOp' = CacheOp("GetStats", "-", "nil", FALSE,
                          Cardinality(DOMAIN cache),
                          Cardinality({k \in DOMAIN cache : IsExpired(cache[k])}))
    /\ UNCHANGED <<cache, pendingDelete, latest, outsideCache>>

\* One tick of the clock.
CacheTick ==
    /\ cache' = [k \in DOMAIN cache |-> [cache[k] EXCEPT !.Age = Older(@)]]
    /\ latest' = [u \in DOMAIN latest |-> [latest[u] EXCEPT !.age = Older(@)]]
    /\ cacheOp' = CacheOp("Tick", "-", "nil", FALSE, 0, 0)
    /\ UNCHANGED <<pendingDelete, outsideCache>>

CacheNext ==
    \/ NoCallInProgress /\ \E url \in CacheURLs, res \in CacheResults : Set(url, res)
    \/ NoCallInProgress /\ \E url \in CacheURLs : GetRead(url)
    \/ \E url \in CacheURLs : GetDelete(url)
    \/ NoCallInProgress /\ GetStats
    \/ ClearExpired
    \/ CacheTick

CacheSpec == CacheInit /\ [][CacheNext]_vars

\* Goroutines that can be inside Get at once.
MaxGetters == 2

\* The cache called by concurrent requests: a Set, a Get or a GetStats of
\* one goroutine runs while a Get of another is between its read lock and
\* its write lock; at most MaxGetters calls of Get are in that gap.
CacheConcNext ==
    \/ \E url \in CacheURLs, res \in CacheResults : Set(url, res)
    \/ BagCardinality(pendingDelete) < MaxGetters /\ \E url \in CacheURLs : GetRead(url)
    \/ \E url \in CacheURLs : GetDelete(url)
    \/ GetStats
    \/ ClearExpired
    \/ CacheTick

CacheConcSpec == CacheInit /\ [][CacheConcNext]_vars

---------------------------------------------------------------------------
(* The HTTP handler of POST /analyze (handlers/handlers.go) *)

\* The error codes of analyzer/errors.go.
ErrorCodes ==
    {"INVALID_URL", "HTTP_ERROR", "NETWORK_ERROR", "PARSE_ERROR",
     "TIMEOUT_ERROR", "VALIDATION_ERROR", "INTERNAL_ERROR"}

\* Status codes an upstream server answers with.
UpstreamStatuses == Statuses \cup {499, 502}

\* What the handler reads of an *AnalysisResult.
Analysed(code, status) == [Error |-> code, StatusCode |-> status]

\* The results AnalyzeURLWithContext returns.  result.StatusCode is set
\* from the response before the status test, so HTTP_ERROR comes with a
\* status of 400 or more and a parse error or a success with one below;
\* the errors raised before a response arrives leave it 0.  A transport
\* error is a plain error and is wrapped as INTERNAL_ERROR; NETWORK_ERROR
\* is what the open circuit breaker returns.
AnalysisOutcomes ==
    {Analysed("nil", s) : s \in {t \in UpstreamStatuses : t < 400}}
      \cup {Analysed("INVALID_URL", 0), Analysed("TIMEOUT_ERROR", 0),
            Analysed("NETWORK_ERROR", 0), Analysed("INTERNAL_ERROR", 0)}
      \cup {Analysed("HTTP_ERROR", s) : s \in {t \in UpstreamStatuses : t >= 400}}
      \cup {Analysed(c, s) : c \in {"PARSE_ERROR", "INTERNAL_ERROR"},
                             s \in {t \in UpstreamStatuses : t < 400}}

\* The request methods and url form values tried.
Methods == {"GET", "POST", "PUT"}
FormURLs == {"", "https://a.test", "b.test"}

\* A switch that answers every upstream error status with 400.
statusCodeAlwaysBadRequest(res) ==
    IF res.Error = "nil" THEN 200
    ELSE CASE res.Error = "INVALID_URL" -> 400
           [] res.Error = "HTTP_ERROR" ->
                IF res.StatusCode >= 400 THEN 400 ELSE 200
           [] res.Error = "NETWORK_ERROR" -> 502
           [] res.Error = "PARSE_ERROR" -> 422
           [] res.Error = "TIMEOUT_ERROR" -> 408
           [] OTHER -> 500

\* statusCode as AnalyzeHandler computes it from the result.
statusCode(res) ==
    IF res.Error = "nil" THEN 200
    ELSE CASE res.Error = "INVALID_URL" -> 400
           [] res.Error = "HTTP_ERROR" ->
                IF res.StatusCode >= 400 /\ res.StatusCode < 500 THEN 400
                ELSE IF res.StatusCode >= 500 THEN 502
                ELSE 200
           [] res.Error = "NETWORK_ERROR" -> 502
           [] res.Error = "PARSE_ERROR" -> 422
           [] res.Error = "TIMEOUT_ERROR" -> 408
           [] OTHER -> 500

HandlerInit ==
    /\ BatchOff
    /\ TimeoutOff
    /\ AnalyzerOff
    /\ WorkerPoolOff
    /\ ClientPoolOff
    /\ ProbeOff
    /\ BreakerOff
    /\ CacheOff
    /\ reqMethod = "-"
    /\ reqURL = "-"
    /\ analysis = Analysed("-", 0)
    /\ rrCode = 0
    /\ analyses = 0
    /\ served = 0

\* s.AnalyzeHandler(w, r): one request answered.
AnalyzeHandler(method, url) ==
    /\ served < MaxRequests
    /\ reqMethod' = method
    /\ reqURL' = url
    /\ served' = served + 1
    /\ IF method # "POST"
       THEN /\ rrCode' = 405
            /\ analysis' = Analysed("-", 0)
            /\ analyses' = analyses
       ELSE IF url = ""
       THEN /\ rrCode' = 400
            /\ analysis' = Analysed("-", 0)
            /\ analyses' = analyses
       ELSE \E res \in AnalysisOutcomes :
               /\ analysis' = res
               /\ analyses' = analyses + 1
               /\ rrCode' = statusCode(res)
    /\ UNCHANGED outsideHandler

HandlerNext == \E method \in Methods, url \in FormURLs : AnalyzeHandler(method, url)

HandlerSpec == HandlerInit /\ [][HandlerNext]_vars

---------------------------------------------------------------------------
(* The HEAD probe step by step, run by several workers at once against    *)
(* the pool of HTTP clients (getHTTPClient / putHTTPClient).              *)

Probers == 1..MaxProbers

\* The href, resolved against the base URL.
resolvedLink(link) ==
    LET parsed == urlParse(link)
    IN  IF ~IsAbs(parsed) THEN ResolveReference(baseURL, parsed) ELSE parsed

\* The strings ProcessLink calls its checker with: linkURL.String() of
\* every href that parses and is not internal.
CheckerLinks ==
    {URLString(resolvedLink(link)) :
        link \in {l \in ProbeLinks :
                    /\ l # << >> /\ ~HasPrefix(l, "#")
                    /\ ~urlParse(l).err
                    /\ Hostname(resolvedLink(l)) # Hostname(baseURL)}}

Prober(at, link) == [pc |-> at, link |-> link]

ClientPoolInit ==
    /\ BatchOff
    /\ TimeoutOff
    /\ AnalyzerOff
    /\ WorkerPoolOff
    /\ ProbeOff
    /\ BreakerOff
    /\ CacheOff
    /\ HandlerOff
    /\ probers = [w \in Probers |-> Prober("idle", << >>)]
    /\ invocations = 0
    /\ acquired = 0
    /\ released = 0
    /\ requestsSent = 0

\* A worker's ProcessLink calls a.isLinkAccessible(linkURL.String()).
InvokeProbe(w, link) ==
    /\ probers[w].pc = "idle"
    /\ invocations < MaxInvocations
    /\ probers' = [probers EXCEPT ![w] = Prober("entered", link)]
    /\ invocations' = invocations + 1
    /\ UNCHANGED <<acquired, released, requestsSent, outsideClientPool>>

\* if linkProcessor.IsSpecialProtocol(link) { return false }
SkipSpecialProtocol(w) ==
    /\ probers[w].pc = "entered"
    /\ IsSpecialProtocol(probers[w].link)
    /\ probers' = [probers EXCEPT ![w] = Prober("idle", << >>)]
    /\ UNCHANGED <<invocations, acquired, released, requestsSent,
                   outsideClientPool>>

\* client := a.getHTTPClient(); defer a.putHTTPClient(client)
AcquireClient(w) ==
    /\ probers[w].pc = "entered"
    /\ ~IsSpecialProtocol(probers[w].link)
    /\ acquired' = acquired + 1
    /\ probers' = [probers EXCEPT ![w].pc = "acquired"]
    /\ UNCHANGED <<invocations, released, requestsSent, outsideClientPool>>

\* http.NewRequest and, when it succeeds, the call of client.Do; when it
\* fails the probe returns false and the deferred putHTTPClient runs.
SendRequest(w) ==
    /\ probers[w].pc = "acquired"
    /\ IF NewRequestFails(probers[w].link)
       THEN /\ released' = released + 1
            /\ probers' = [probers EXCEPT ![w] = Prober("idle", << >>)]
            /\ UNCHANGED requestsSent
       ELSE /\ requestsSent' = requestsSent + 1
            /\ probers' = [probers EXCEPT ![w].pc = "sent"]
            /\ UNCHANGED released
    /\ UNCHANGED <<invocations, acquired, outsideClientPool>>

\* A probe that returns on a transport error before its deferred release
\* was registered.
ProbeReturnsLeakingOnError(w, net) ==
    /\ probers[w].pc = "sent"
    /\ released' = IF clientDo(probers[w].link, net).err # "none"
                   THEN released ELSE released + 1
    /\ probers' = [probers EXCEPT ![w] = Prober("idle", << >>)]
    /\ UNCHANGED <<invocations, acquired, requestsSent, outsideClientPool>>

\* client.Do comes back with an error or a response of any status; the
\* probe returns its bool and the deferred putHTTPClient runs.
ProbeReturns(w, net) ==
    /\ probers[w].pc = "sent"
    /\ released' = released + 1
    /\ probers' = [probers EXCEPT ![w] = Prober("idle", << >>)]
    /\ UNCHANGED <<invocations, acquired, requestsSent, outsideClientPool>>

ClientPoolNext ==
    \E w \in Probers :
        \/ \E link \in CheckerLinks : InvokeProbe(w, link)
        \/ SkipSpecialProtocol(w)
        \/ AcquireClient(w)
        \/ SendRequest(w)
        \/ \E net \in NetOutcomes : ProbeReturns(w, net)

ClientPoolSpec == ClientPoolInit /\ [][ClientPoolNext]_vars

---------------------------------------------------------------------------
(* The AnalysisWorkerPool batch (analyzer/worker_pool.go): the caller     *)
(* submits every link with SubmitJob, then collects.  Jobs and results    *)
(* are counted, not told apart: what a job's result says plays no part    *)
(* in where the job goes.                                                 *)

\* The link counts tried: short lists, and the longest one.
PoolLinkCounts == {1, 2, 5, MaxPoolLinks}

\* calculateOptimalWorkers of the AnalysisWorkerPool batch.
poolOptimalWorkers(n) ==
    IF n <= 5 THEN 1
    ELSE IF n <= 20 THEN 5
    ELSE IF n <= 50 THEN 10
    ELSE IF n <= 100 THEN 15
    ELSE 20

\* bufferSize of NewAnalysisWorkerPool: the capacity of both channels.
bufferSize(w) == w * 4

WorkerPoolInit ==
    /\ BatchOff
    /\ TimeoutOff
    /\ AnalyzerOff
    /\ ProbeOff
    /\ BreakerOff
    /\ CacheOff
    /\ HandlerOff
    /\ ClientPoolOff
    /\ wpLinks \in PoolLinkCounts
    /\ wpWorkers = 0
    /\ wpPc = "call"
    /\ wpSubmitted = 0
    /\ jobQueue = 0
    /\ wpHolding = 0
    /\ wpResults = 0
    /\ wpReceived = 0
    /\ wpAlive = 0
    /\ stopChan = "open"
    /\ wpTimer = "unset"
    /\ wpFallbacks = FALSE

\* NewAnalysisWorkerPool(workers, a); pool.Start(); defer pool.Stop()
PoolStart ==
    /\ wpPc = "call"
    /\ wpWorkers' = poolOptimalWorkers(wpLinks)
    /\ wpAlive' = wpWorkers'
    /\ wpPc' = "submit"
    /\ UNCHANGED <<wpLinks, wpSubmitted, jobQueue, wpHolding, wpResults,
                   wpReceived, stopChan, wpTimer, wpFallbacks, outsideWorkerPool>>

\* A SubmitJob whose default case does nothing.
PoolSubmitJobDropsWhenFull ==
    /\ wpPc = "submit"
    /\ wpSubmitted < wpLinks
    /\ wpSubmitted' = wpSubmitted + 1
    /\ jobQueue' = IF jobQueue < bufferSize(wpWorkers) THEN jobQueue + 1
                   ELSE jobQueue
    /\ UNCHANGED <<wpLinks, wpWorkers, wpPc, wpHolding, wpResults, wpReceived,
                   wpAlive, stopChan, wpTimer, wpFallbacks, outsideWorkerPool>>

\* pool.SubmitJob(job): the send if the queue has room, otherwise the
\* default case, which calls processJob in the caller.
PoolSubmitJob ==
    /\ wpPc = "submit"
    /\ wpSubmitted < wpLinks
    /\ wpSubmitted' = wpSubmitted + 1
    /\ IF jobQueue < bufferSize(wpWorkers)
       THEN /\ jobQueue' = jobQueue + 1
            /\ UNCHANGED <<wpPc, wpFallbacks>>
       ELSE /\ wpPc' = "processJob"
            /\ wpFallbacks' = TRUE
            /\ UNCHANGED jobQueue
    /\ UNCHANGED <<wpLinks, wpWorkers, wpHolding, wpResults, wpReceived,
                   wpAlive, stopChan, wpTimer, outsideWorkerPool>>

\* processJob in the caller: wp.results <- result, blocking while the
\* results channel is full.
CallerProcessJob ==
    /\ wpPc = "processJob"
    /\ wpResults < bufferSize(wpWorkers)
    /\ wpResults' = wpResults + 1
    /\ wpPc' = "submit"
    /\ UNCHANGED <<wpLinks, wpWorkers, wpSubmitted, jobQueue, wpHolding,
                   wpReceived, wpAlive, stopChan, wpTimer, wpFallbacks,
                   outsideWorkerPool>>

\* After the last SubmitJob: timeout := time.After(30 * time.Second)
PoolCollect ==
    /\ wpPc = "submit"
    /\ wpSubmitted = wpLinks
    /\ wpTimer' = "armed"
    /\ wpPc' = "loop"
    /\ UNCHANGED <<wpLinks, wpWorkers, wpSubmitted, jobQueue, wpHolding,
                   wpResults, wpReceived, wpAlive, stopChan, wpFallbacks,
                   outsideWorkerPool>>

\* worker: case job, ok := <-wp.jobQueue with a job.
PoolWorkerTake ==
    /\ wpAlive - wpHolding > 0
    /\ jobQueue > 0
    /\ jobQueue' = jobQueue - 1
    /\ wpHolding' = wpHolding + 1
    /\ UNCHANGED <<wpLinks, wpWorkers, wpPc, wpSubmitted, wpResults, wpReceived,
                   wpAlive, stopChan, wpTimer, wpFallbacks, outsideWorkerPool>>

\* worker: processJob, wp.results <- result, blocking while results is full.
PoolWorkerSend ==
    /\ wpHolding > 0
    /\ wpResults < bufferSize(wpWorkers)
    /\ wpResults' = wpResults + 1
    /\ wpHolding' = wpHolding - 1
    /\ UNCHANGED <<wpLinks, wpWorkers, wpPc, wpSubmitted, jobQueue, wpReceived,
                   wpAlive, stopChan, wpTimer, wpFallbacks, outsideWorkerPool>>

\* worker: case <-wp.stopChan, or the job queue closed and empty: return.
PoolWorkerReturn ==
    /\ wpAlive - wpHolding > 0
    /\ stopChan = "closed"
    /\ wpAlive' = wpAlive - 1
    /\ UNCHANGED <<wpLinks, wpWorkers, wpPc, wpSubmitted, jobQueue, wpHolding,
                   wpResults, wpReceived, stopChan, wpTimer, wpFallbacks,
                   outsideWorkerPool>>

\* The runtime timer of the collection loop fires.
PoolTimerFire ==
    /\ wpTimer = "armed"
    /\ wpTimer' = "fired"
    /\ UNCHANGED <<wpLinks, wpWorkers, wpPc, wpSubmitted, jobQueue, wpHolding,
                   wpResults, wpReceived, wpAlive, stopChan, wpFallbacks,
                   outsideWorkerPool>>

\* Collection loop: case linkResult := <-pool.GetResults()
PoolReceive ==
    /\ wpPc = "loop"
    /\ wpReceived < wpLinks
    /\ wpResults > 0
    /\ wpResults' = wpResults - 1
    /\ wpReceived' = wpReceived + 1
    /\ wpPc' = IF wpReceived' < wpLinks THEN "loop" ELSE "done"
    /\ UNCHANGED <<wpLinks, wpWorkers, wpSubmitted, jobQueue, wpHolding,
                   wpAlive, stopChan, wpTimer, wpFallbacks, outsideWorkerPool>>

\* Collection loop: case <-timeout: goto done
PoolTimeout ==
    /\ wpPc = "loop"
    /\ wpReceived < wpLinks
    /\ wpTimer = "fired"
    /\ wpPc' = "done"
    /\ UNCHANGED <<wpLinks, wpWorkers, wpSubmitted, jobQueue, wpHolding,
                   wpResults, wpReceived, wpAlive, stopChan, wpTimer,
                   wpFallbacks, outsideWorkerPool>>

\* done: the result is written; the deferred pool.Stop() closes stopChan
\* and the job queue and waits for the workers.
PoolStop ==
    /\ wpPc = "done"
    /\ stopChan' = "closed"
    /\ wpPc' = "Stop"
    /\ UNCHANGED <<wpLinks, wpWorkers, wpSubmitted, jobQueue, wpHolding,
                   wpResults, wpReceived, wpAlive, wpTimer, wpFallbacks,
                   outsideWorkerPool>>

\* pool.Stop(): wp.workerWg.Wait() is over, close(wp.results), return.
PoolStopped ==
    /\ wpPc = "Stop"
    /\ wpAlive = 0
    /\ wpPc' = "returned"
    /\ UNCHANGED <<wpLinks, wpWorkers, wpSubmitted, jobQueue, wpHolding,
                   wpResults, wpReceived, wpAlive, stopChan, wpTimer,
                   wpFallbacks, outsideWorkerPool>>

WorkerPoolNext ==
    \/ PoolStart
    \/ PoolSubmitJob
    \/ CallerProcessJob
    \/ PoolCollect
    \/ PoolWorkerTake
    \/ PoolWorkerSend
    \/ PoolWorkerReturn
    \/ PoolTimerFire
    \/ PoolReceive
    \/ PoolTimeout
    \/ PoolStop
    \/ PoolStopped

WorkerPoolSpec == WorkerPoolInit /\ [][WorkerPoolNext]_vars

\* The Go scheduler runs every runnable goroutine of the pool batch and
\* the runtime timer fires: weak fairness of the caller, of the workers
\* and of the timer.
PoolFairness ==
    /\ WF_vars(PoolStart \/ PoolSubmitJob \/ CallerProcessJob \/ PoolCollect
                 \/ PoolReceive \/ PoolTimeout \/ PoolStop \/ PoolStopped)
    /\ WF_vars(PoolWorkerTake \/ PoolWorkerSend \/ PoolWorkerReturn)
    /\ WF_vars(PoolTimerFire)

WorkerPoolFairSpec == WorkerPoolSpec /\ PoolFairness

---------------------------------------------------------------------------
(* Analyzer.AnalyzeURLWithContext (analyzer/analyzer.go) *)

\* Goroutines that call AnalyzeURLWithContext, and calls made in a run.
MaxCallers == 2
MaxAnalyses == 3

\* The targetURL arguments tried: a host without a scheme, a URL with one,
\* and a string url.Parse rejects.
AnalyzerURLs ==
    { <<"a.test">>,
      <<"https:", "//", "b.test">>,
      <<"%zz">> }

\* strings.Contains(targetURL, "://")
containsSchemeSep(url) ==
    \E i \in 1..(Len(url) - 1) : url[i] \in SchemeTokens /\ url[i + 1] = "//"

\* "https://" + targetURL
withHTTPS(url) == <<"https:", "//">> \o url

\* The head of AnalyzeURLWithContext: the URL that is looked up and
\* fetched, or the INVALID_URL error.  A string that does not parse is
\* tried again behind "https://" when it has no "://"; a URL without a
\* scheme gets "https://" in front.
normalizeTarget(url) ==
    LET p == urlParse(url)
    IN  IF p.err
        THEN IF ~containsSchemeSep(url) /\ ~urlParse(withHTTPS(url)).err
             THEN [err |-> FALSE, target |-> withHTTPS(url)]
             ELSE [err |-> TRUE, target |-> url]
        ELSE IF p.Scheme = ""
             THEN [err |-> urlParse(withHTTPS(url)).err, target |-> withHTTPS(url)]
             ELSE [err |-> FALSE, target |-> url]

\* What is read of an *AnalysisResult: result.URL is the argument as
\* given, before normalisation.
AnalysisOf(url, code, status) == [URL |-> url, Error |-> code, StatusCode |-> status]

\* How the function given to Execute ends: nil after the document is
\* analysed, a transport error (a plain error, wrapped as INTERNAL_ERROR),
\* a status of 400 or more, a parse error.
FnOutcomes ==
    { Analysed("nil", 200),
      Analysed("INTERNAL_ERROR", 0),
      Analysed("HTTP_ERROR", 404),
      Analysed("PARSE_ERROR", 200) }

\* A call of AnalyzeURLWithContext that has just been entered.  The calls
\* in progress are kept as a bag: which goroutine runs a call does not
\* matter to the analyzer.
NewCall(url) ==
    [pc |-> "lookup", url |-> url, target |-> << >>, res |-> "nil",
     via |-> "-", executed |-> FALSE, fetched |-> FALSE]

\* The call c goes on as d.
Proceed(c, d) == (calls (-) SetToBag({c})) (+) SetToBag({d})

\* NewAnalyzer: NewCircuitBreaker(5, 30*time.Second, 2), an empty cache,
\* zero metrics.  The failure threshold is scaled down to 1..MaxThreshold.
AnalyzerInit ==
    /\ BatchOff
    /\ TimeoutOff
    /\ ProbeOff
    /\ HandlerOff
    /\ ClientPoolOff
    /\ WorkerPoolOff
    /\ cbState = "Closed"
    /\ failureCount = 0
    /\ sinceFailure = RecoveryTimeout + 1
    /\ failureThreshold \in 1..MaxThreshold
    /\ successThreshold = 2
    /\ inflight = 0
    /\ lastOp = [op |-> "NewCircuitBreaker", ret |-> "-"]
    /\ consec = 0
    /\ hoSucc = 0
    /\ cache = << >>
    /\ pendingDelete = EmptyBag
    /\ cacheOp = CacheOp("NewAnalyzer", "-", "nil", FALSE, 0, 0)
    /\ latest = << >>
    /\ calls = EmptyBag
    /\ ActiveRequests = 0
    /\ started = 0

\* What a step of the analyzer never changes: the breaker's settings and
\* the histories kept for the breaker and the cache on their own.
analyzerFixed ==
    <<failureThreshold, successThreshold, inflight, lastOp, consec, hoSucc,
      pendingDelete, cacheOp, latest, outsideAnalyzer>>

\* The breaker as CanExecute, OnSuccess and OnFailure change it.
breakerState == <<cbState, failureCount, sinceFailure>>

\* AnalyzeURLWithContext is entered: a.incrementActiveRequests() under
\* a.metrics.mu with the decrement deferred, then url.Parse and the
\* normalisation, which touch nothing shared: INVALID_URL returns,
\* otherwise the cache is looked up next.
AnalyzeEnter(url) ==
    /\ BagCardinality(calls) < MaxCallers
    /\ started < MaxAnalyses
    /\ started' = started + 1
    /\ ActiveRequests' = ActiveRequests + 1
    /\ LET n == normalizeTarget(url)
       IN  calls' = calls (+) SetToBag({
                        IF n.err
                        THEN [NewCall(url) EXCEPT !.pc = "return", !.via = "invalid",
                                                  !.res = AnalysisOf(url, "INVALID_URL", 0)]
                        ELSE [NewCall(url) EXCEPT !.target = n.target]})
    /\ UNCHANGED <<breakerState, cache, analyzerFixed>>

\* A lookup whose hit is still put before the breaker: refused while the
\* breaker refuses.
CacheLookupAsksBreaker(c) ==
    /\ c.pc = "lookup"
    /\ LET r == getLookup(cache, c.target)
           b == canExecute(cbState, sinceFailure)
       IN  calls' = Proceed(c,
                        IF r.found /\ b.ok
                        THEN [c EXCEPT !.pc = "return", !.via = "cache", !.res = r.result]
                        ELSE IF r.found
                             THEN [c EXCEPT !.pc = "return", !.via = "cache",
                                            !.executed = TRUE,
                                            !.res = AnalysisOf(c.url, "NETWORK_ERROR", 0)]
                             ELSE IF r.expired
                                  THEN [c EXCEPT !.pc = "delete"]
                                  ELSE [c EXCEPT !.pc = "execute"])
    /\ UNCHANGED <<ActiveRequests, started, breakerState, cache, analyzerFixed>>

\* a.getFromCache(targetURL) under the read lock: a hit returns the cached
\* result; an expired entry is deleted next; a miss goes on to the fetch.
CacheLookup(c) ==
    /\ c.pc = "lookup"
    /\ LET r == getLookup(cache, c.target)
       IN  calls' = Proceed(c,
                        IF r.found
                        THEN [c EXCEPT !.pc = "return", !.via = "cache", !.res = r.result]
                        ELSE IF r.expired
                             THEN [c EXCEPT !.pc = "delete"]
                             ELSE [c EXCEPT !.pc = "execute"])
    /\ UNCHANGED <<ActiveRequests, started, breakerState, cache, analyzerFixed>>

\* a.getFromCache under the write lock: delete(a.cache, key), a miss.
CacheDelete(c) ==
    /\ c.pc = "delete"
    /\ cache' = MapDelete(cache, generateCacheKey(c.target))
    /\ calls' = Proceed(c, [c EXCEPT !.pc = "execute"])
    /\ UNCHANGED <<ActiveRequests, started, breakerState, analyzerFixed>>

\* The context is already done before the request: TIMEOUT_ERROR.
ContextDone(c) ==
    /\ c.pc = "execute"
    /\ calls' = Proceed(c, [c EXCEPT !.pc = "return", !.via = "timeout",
                                     !.res = AnalysisOf(c.url, "TIMEOUT_ERROR", 0)])
    /\ UNCHANGED <<ActiveRequests, started, breakerState, cache, analyzerFixed>>

\* a.circuitBreaker.Execute(fn) up to the call of fn: cb.CanExecute()
\* refuses with the NETWORK_ERROR, or fn starts.
ExecuteCalled(c) ==
    /\ c.pc = "execute"
    /\ LET r == canExecute(cbState, sinceFailure)
       IN  /\ cbState' = r.state
           /\ calls' = Proceed(c,
                           IF r.ok
                           THEN [c EXCEPT !.pc = "fn", !.executed = TRUE]
                           ELSE [c EXCEPT !.pc = "return", !.via = "rejected",
                                          !.executed = TRUE,
                                          !.res = AnalysisOf(c.url, "NETWORK_ERROR", 0)])
    /\ UNCHANGED <<failureCount, sinceFailure, ActiveRequests, started, cache,
                   analyzerFixed>>

\* A failure whose result is cached all the same.
FnFailsStoresResult(c, out) ==
    /\ c.pc = "fn"
    /\ out.Error # "nil"
    /\ LET r == onFailure(cbState, failureCount, failureThreshold)
       IN  /\ cbState' = r.state
           /\ failureCount' = r.failureCount
    /\ sinceFailure' = 0
    /\ calls' = Proceed(c, [c EXCEPT !.pc = "return", !.via = "failed", !.fetched = TRUE,
                                     !.res = AnalysisOf(c.url, out.Error, out.StatusCode)])
    /\ cache' = MapPut(cache, generateCacheKey(c.target),
                       [Result |-> AnalysisOf(c.url, out.Error, out.StatusCode),
                        Age |-> 0, TTL |-> CacheTTL])
    /\ UNCHANGED <<ActiveRequests, started, analyzerFixed>>

\* fn returns an error after its request: cb.OnFailure(), the error goes
\* into result.Error and the call returns without a.setCache.
FnFails(c, out) ==
    /\ c.pc = "fn"
    /\ out.Error # "nil"
    /\ LET r == onFailure(cbState, failureCount, failureThreshold)
       IN  /\ cbState' = r.state
           /\ failureCount' = r.failureCount
    /\ sinceFailure' = 0
    /\ calls' = Proceed(c, [c EXCEPT !.pc = "return", !.via = "failed", !.fetched = TRUE,
                                     !.res = AnalysisOf(c.url, out.Error, out.StatusCode)])
    /\ UNCHANGED <<ActiveRequests, started, cache, analyzerFixed>>

\* fn returns nil: cb.OnSuccess(); a.setCache(targetURL, result) is next.
FnSucceeds(c, out) ==
    /\ c.pc = "fn"
    /\ out.Error = "nil"
    /\ LET r == onSuccess(cbState, failureCount)
       IN  /\ cbState' = r.state
           /\ failureCount' = r.failureCount
    /\ calls' = Proceed(c, [c EXCEPT !.pc = "store", !.fetched = TRUE,
                                     !.res = AnalysisOf(c.url, out.Error, out.StatusCode)])
    /\ UNCHANGED <<sinceFailure, ActiveRequests, started, cache, analyzerFixed>>

\* a.setCache(targetURL, result) under the write lock.
StoreResult(c) ==
    /\ c.pc = "store"
    /\ cache' = MapPut(cache, generateCacheKey(c.target),
                       [Result |-> c.res, Age |-> 0, TTL |-> CacheTTL])
    /\ calls' = Proceed(c, [c EXCEPT !.pc = "return", !.via = "ok"])
    /\ UNCHANGED <<ActiveRequests, started, breakerState, analyzerFixed>>

\* The deferred a.decrementActiveRequests() that never runs.
AnalyzeReturnKeepsCount(c) ==
    /\ c.pc = "return"
    /\ calls' = calls (-) SetToBag({c})
    /\ UNCHANGED <<ActiveRequests, started, breakerState, cache, analyzerFixed>>

\* The return of AnalyzeURLWithContext on any path: the deferred
\* a.decrementActiveRequests() under a.metrics.mu.
AnalyzeReturn(c) ==
    /\ c.pc = "return"
    /\ ActiveRequests' = ActiveRequests - 1
    /\ calls' = calls (-) SetToBag({c})
    /\ UNCHANGED <<started, breakerState, cache, analyzerFixed>>

\* a.clearExpiredCache(), run by the cleanup goroutine on its ticker.
CleanupExpired ==
    /\ \E k \in DOMAIN cache : IsExpired(cache[k])
    /\ cache' = [k \in {x \in DOMAIN cache : ~IsExpired(cache[x])} |-> cache[k]]
    /\ UNCHANGED <<calls, ActiveRequests, started, breakerState, analyzerFixed>>

\* One tick of the clock: the entries and the last failure are older.
AnalyzerTick ==
    /\ cache' = [k \in DOMAIN cache |-> [cache[k] EXCEPT !.Age = Older(@)]]
    /\ sinceFailure' = IF sinceFailure <= RecoveryTimeout THEN sinceFailure + 1
                       ELSE sinceFailure
    /\ UNCHANGED <<cbState, failureCount, calls, ActiveRequests, started,
                   analyzerFixed>>

AnalyzerNext ==
    \/ \E url \in AnalyzerURLs : AnalyzeEnter(url)
    \/ \E c \in BagToSet(calls) : CacheLookup(c)
    \/ \E c \in BagToSet(calls) : CacheDelete(c)
    \/ \E c \in BagToSet(calls) : ContextDone(c)
    \/ \E c \in BagToSet(calls) : ExecuteCalled(c)
    \/ \E c \in BagToSet(calls), out \in FnOutcomes : FnFails(c, out)
    \/ \E c \in BagToSet(calls), out \in FnOutcomes : FnSucceeds(c, out)
    \/ \E c \in BagToSet(calls) : StoreResult(c)
    \/ \E c \in BagToSet(calls) : AnalyzeReturn(c)
    \/ CleanupExpired
    \/ AnalyzerTick

AnalyzerSpec == AnalyzerInit /\ [][AnalyzerNext]_vars

---------------------------------------------------------------------------
(* middleware.Timeout around the route handler (middleware/middleware.go, main.go) *)

\* Status codes the route handlers answer with.
HandlerCodes == {200, 400, 405, 502}

\* A call on the ResponseWriter by one of the two goroutines.
WriteBy(party, call, code) == [by |-> party, call |-> call, code |-> code]

\* A request reaches the middleware: the context with its deadline, the
\* channel done of capacity 1, the goroutine running next.ServeHTTP(w, r);
\* the middleware's goroutine is at its select.
TimeoutInit ==
    /\ BatchOff
    /\ AnalyzerOff
    /\ WorkerPoolOff
    /\ ClientPoolOff
    /\ HandlerOff
    /\ ProbeOff
    /\ BreakerOff
    /\ CacheOff
    /\ mwPc = "select"
    /\ handlerPc = "running"
    /\ handlerCode \in HandlerCodes
    /\ ctxDone = FALSE
    /\ doneChan = 0
    /\ writes = << >>

\* The handler: w.Header().Set("Content-Type", ...)
HandlerSetsHeader ==
    /\ handlerPc = "running"
    /\ handlerPc' = "header"
    /\ writes' = Append(writes, WriteBy("handler", "Header().Set", 0))
    /\ UNCHANGED <<mwPc, handlerCode, ctxDone, doneChan, outsideTimeout>>

\* The handler: w.WriteHeader(statusCode)
HandlerWritesHeader ==
    /\ handlerPc = "header"
    /\ handlerPc' = "status"
    /\ writes' = Append(writes, WriteBy("handler", "WriteHeader", handlerCode))
    /\ UNCHANGED <<mwPc, handlerCode, ctxDone, doneChan, outsideTimeout>>

\* The handler: the body, json.NewEncoder(w).Encode(result)
HandlerWritesBody ==
    /\ handlerPc = "status"
    /\ handlerPc' = "body"
    /\ writes' = Append(writes, WriteBy("handler", "Write", 0))
    /\ UNCHANGED <<mwPc, handlerCode, ctxDone, doneChan, outsideTimeout>>

\* next.ServeHTTP has returned: done <- true, which the buffer takes.
HandlerDone ==
    /\ handlerPc = "body"
    /\ handlerPc' = "done"
    /\ doneChan' = doneChan + 1
    /\ UNCHANGED <<mwPc, handlerCode, ctxDone, writes, outsideTimeout>>

\* The deadline of the context passes, or the request's context is
\* cancelled.
ContextExpires ==
    /\ mwPc = "select"
    /\ ~ctxDone
    /\ ctxDone' = TRUE
    /\ UNCHANGED <<mwPc, handlerPc, handlerCode, doneChan, writes, outsideTimeout>>

\* case <-done: the middleware returns, the deferred cancel() runs.
SelectDone ==
    /\ mwPc = "select"
    /\ doneChan > 0
    /\ doneChan' = doneChan - 1
    /\ mwPc' = "returned"
    /\ ctxDone' = TRUE
    /\ UNCHANGED <<handlerPc, handlerCode, writes, outsideTimeout>>

\* case <-ctx.Done(): the timeout is logged, http.Error is next.
SelectTimeout ==
    /\ mwPc = "select"
    /\ ctxDone
    /\ mwPc' = "error"
    /\ UNCHANGED <<handlerPc, handlerCode, ctxDone, doneChan, writes, outsideTimeout>>

\* http.Error: the Content-Type and X-Content-Type-Options headers.
ErrorSetsHeader ==
    /\ mwPc = "error"
    /\ mwPc' = "errorHeader"
    /\ writes' = Append(writes, WriteBy("middleware", "Header().Set", 0))
    /\ UNCHANGED <<handlerPc, handlerCode, ctxDone, doneChan, outsideTimeout>>

\* http.Error: w.WriteHeader(http.StatusRequestTimeout)
ErrorWritesHeader ==
    /\ mwPc = "errorHeader"
    /\ mwPc' = "errorStatus"
    /\ writes' = Append(writes, WriteBy("middleware", "WriteHeader", 408))
    /\ UNCHANGED <<handlerPc, handlerCode, ctxDone, doneChan, outsideTimeout>>

\* http.Error: fmt.Fprintln(w, "Request Timeout"); the middleware returns.
ErrorWritesBody ==
    /\ mwPc = "errorStatus"
    /\ mwPc' = "returned"
    /\ writes' = Append(writes, WriteBy("middleware", "Write", 0))
    /\ UNCHANGED <<handlerPc, handlerCode, ctxDone, doneChan, outsideTimeout>>

TimeoutNext ==
    \/ HandlerSetsHeader
    \/ HandlerWritesHeader
    \/ HandlerWritesBody
    \/ HandlerDone
    \/ ContextExpires
    \/ SelectDone
    \/ SelectTimeout
    \/ ErrorSetsHeader
    \/ ErrorWritesHeader
    \/ ErrorWritesBody

TimeoutSpec == TimeoutInit /\ [][TimeoutNext]_vars

---------------------------------------------------------------------------
(* Properties *)

\* A step of the collection loop that took one outcome from results.
ReceivedOne == resultsReceived' = resultsReceived + 1

CountersUnchanged ==
    /\ internalCount' = internalCount
    /\ externalCount' = externalCount
    /\ inaccessibleCount' = inaccessibleCount

\* A link the specification calls a Skip: empty, fragment, or special protocol.
IsSkip(link) == link = << >> \/ HasPrefix(link, "#") \/ IsSpecialProtocol(link)

\* The counters as determined by a sequence of outcomes.
NumInternal(os) == Cardinality({i \in DOMAIN os : ~os[i].Error /\ os[i].IsInternal})
NumExternal(os) == Cardinality({i \in DOMAIN os : ~os[i].Error /\ ~os[i].IsInternal})
NumInaccessible(os) ==
    Cardinality({i \in DOMAIN os : ~os[i].Error /\ ~os[i].IsInternal
                                      /\ ~os[i].IsAccessible})

\* C1: every outcome taken from results is folded by the rule: Error set,
\* no counter changes; else internal, internalCount + 1 only; else
\* externalCount + 1, and inaccessibleCount + 1 iff not accessible.
C1_FoldRule ==
    [][ReceivedOne =>
          LET o == Head(results)
          IN  IF o.Error THEN CountersUnchanged
              ELSE IF o.IsInternal
                   THEN /\ internalCount' = internalCount + 1
                        /\ externalCount' = externalCount
                        /\ inaccessibleCount' = inaccessibleCount
                   ELSE /\ internalCount' = internalCount
                        /\ externalCount' = externalCount + 1
                        /\ inaccessibleCount' =
                              inaccessibleCount + (IF o.IsAccessible THEN 0 ELSE 1)]_vars

\* C1 witness: an internal outcome and an inaccessible external outcome
\* have both been folded.
C1_Witness ==
    /\ resultsReceived = 2
    /\ internalCount = 1
    /\ externalCount = 1
    /\ inaccessibleCount = 1

\* C2: the outcome of a Skip link (empty, fragment, special protocol)
\* changes no counter when the collection loop receives it.
C2_SkipAddsNothing ==
    [][(ReceivedOne /\ IsSkip(Head(results).Link)) => CountersUnchanged]_vars

\* C3: a batch that completes without the deadline firing reports
\* internal + external = number of links neither skipped nor unparseable.
C3_Partition ==
    (pc = "returned" /\ ~timedOut) =>
        result.InternalLinks + result.ExternalLinks =
            Cardinality({i \in DOMAIN links :
                            ~IsSkip(links[i]) /\ ~urlParse(links[i]).err})

\* C4: the counters, and the counters of the result, are never negative,
\* inaccessible never exceeds external, and no counter ever decreases.
C4_CountsConsistent ==
    /\ [](/\ internalCount >= 0 /\ externalCount >= 0 /\ inaccessibleCount >= 0
          /\ inaccessibleCount <= externalCount
          /\ result.InternalLinks >= 0 /\ result.ExternalLinks >= 0
          /\ result.InaccessibleLinks >= 0
          /\ result.InaccessibleLinks <= result.ExternalLinks)
    /\ [][/\ internalCount' >= internalCount
          /\ externalCount' >= externalCount
          /\ inaccessibleCount' >= inaccessibleCount
          /\ result'.InternalLinks >= result.InternalLinks
          /\ result'.ExternalLinks >= result.ExternalLinks
          /\ result'.InaccessibleLinks >= result.InaccessibleLinks]_vars

\* C4 witness: a batch ended by the timeout returned an inaccessible
\* external link while another link was never received.
C4_Witness ==
    /\ pc = "returned"
    /\ timedOut
    /\ resultsReceived < Len(links)
    /\ result.ExternalLinks = 1
    /\ result.InaccessibleLinks = 1

\* C5: internal + external <= resultsReceived <= len(links), always.
C5_CountsBounded ==
    /\ internalCount + externalCount <= resultsReceived
    /\ resultsReceived <= Len(links)

\* C5 witness: all outcomes of a two-link list received, one of them an
\* error that is in neither counter.
C5_Witness ==
    /\ Len(links) = 2
    /\ resultsReceived = 2
    /\ internalCount + externalCount = 1

\* C6: the worker count follows the table, lies in 4..100 and does not
\* decrease with the link count.
C6_WorkerTable ==
    ppc \in {"timeout", "done"} =>
        /\ workers = (CASE linkCount <= 10 -> 4
                        [] linkCount \in 11..25 -> 12
                        [] linkCount \in 26..50 -> 24
                        [] linkCount \in 51..100 -> 48
                        [] linkCount \in 101..150 -> 64
                        [] linkCount \in 151..200 -> 80
                        [] OTHER -> 100)
        /\ workers >= 4
        /\ workers <= 100
        /\ \A m \in 1..linkCount : calculateOptimalWorkers(m) <= workers

\* C6 witness: the count for a list beyond the last breakpoint.
C6_Witness == ppc = "done" /\ linkCount = 201 /\ workers = 100

\* C7: the deadline is clamp(n div 3, 30, 45) seconds: within 30..45,
\* 30 up to 92 links and 45 from 135 links.
C7_DeadlineClamp ==
    ppc = "done" =>
        /\ timeoutDuration =
              (LET q == linkCount \div 3
               IN  IF q < 30 THEN 30 ELSE IF q > 45 THEN 45 ELSE q)
        /\ timeoutDuration >= 30
        /\ timeoutDuration <= 45
        /\ (linkCount <= 92 => timeoutDuration = 30)
        /\ (linkCount >= 135 => timeoutDuration = 45)

\* C7 witness: a deadline strictly between the clamps.
C7_Witness == ppc = "done" /\ linkCount = 100 /\ timeoutDuration = 33

\* C8: every call of analyzeLinksConcurrent eventually returns.
C8_Returns == <>(pc = "returned")

\* C8 witness: the call returned after the timeout cut the collection
\* short of an outcome.
C8_Witness == pc = "returned" /\ timedOut /\ resultsReceived = 0 /\ Len(links) = 2

\* C9: once the deadline ended the collection loop, the call can return
\* at once, whatever the workers and the job queue still hold.
C9_ReturnsWithoutWaiting == (pc = "wait" /\ timedOut) => ENABLED Return

\* C10: after the deadline fired the counters are those of the outcomes
\* received by the loop, no later step changes them, and they are what
\* the call writes to the result.
C10_TimeoutResultIsFoldOfReceived ==
    /\ []((timedOut /\ pc \in {"wait", "returned"}) =>
            /\ Len(received) = resultsReceived
            /\ internalCount = NumInternal(received)
            /\ externalCount = NumExternal(received)
            /\ inaccessibleCount = NumInaccessible(received)
            /\ (pc = "returned" =>
                   /\ result.InternalLinks = NumInternal(received)
                   /\ result.ExternalLinks = NumExternal(received)
                   /\ result.InaccessibleLinks = NumInaccessible(received)))
    /\ [][timedOut => (received' = received /\ CountersUnchanged)]_vars

\* C10 witness: the call returned after the timeout with one outcome
\* received and another delivered to the channel but never read.
C10_Witness ==
    /\ pc = "returned"
    /\ timedOut
    /\ Len(received) = 1
    /\ Len(results) = 1


\* The links of the batch that url.Parse rejects.
Unparseable == {i \in DOMAIN links : processLinkParallel(links[i], baseURL).Error}

\* C11: an unparseable link aborts neither the batch nor a worker.  The
\* worker holding it sends an outcome with Error set and is back at its
\* range loop, still counted by the WaitGroup; when the batch completes
\* without timeout every link has been received, the error outcomes are
\* exactly the unparseable links, and internal plus external links are
\* exactly the other ones.
C11_ErrorDoesNotAbort ==
    /\ [][\A link \in LinkUniverse :
            (processLinkParallel(link, baseURL).Error /\ BagIn(link, busy)
             /\ busy' = busy (-) SetToBag({link}))
            => /\ results' = Append(results, LinkResult(link, FALSE, FALSE, TRUE))
               /\ idle' = idle + 1
               /\ wg' = wg]_vars
    /\ []((pc = "returned" /\ ~timedOut) =>
            /\ resultsReceived = Len(links)
            /\ Cardinality({i \in DOMAIN received : received[i].Error})
                 = Cardinality(Unparseable)
            /\ result.InternalLinks + result.ExternalLinks
                 = Len(links) - Cardinality(Unparseable))

\* A completed batch of an unparseable link and an internal link: the
\* internal link is counted, the unparseable one is not.
C11_Witness ==
    /\ pc = "returned" /\ ~timedOut
    /\ links = << <<"%zz">>, <<"/a">> >>
    /\ result.InternalLinks = 1 /\ result.ExternalLinks = 0

\* The outcomes received so far as a bag.
ReceivedBag ==
    [o \in {received[i] : i \in DOMAIN received} |->
        Cardinality({i \in DOMAIN received : received[i] = o})]

\* Number of elements of bag B that lie in the set S of its domain.
RECURSIVE CountIn(_, _)
CountIn(B, S) ==
    IF S = {} THEN 0
    ELSE LET o == CHOOSE x \in S : TRUE
         IN  B[o] + CountIn(B, S \ {o})

\* C12: the counters are a function of the multiset of outcomes received,
\* whatever the order the workers delivered them in.
C12_CountsOfMultiset ==
    LET B == ReceivedBag
    IN  (pc \in {"loop", "wait", "returned"}) =>
          /\ internalCount
               = CountIn(B, {o \in DOMAIN B : ~o.Error /\ o.IsInternal})
          /\ externalCount
               = CountIn(B, {o \in DOMAIN B : ~o.Error /\ ~o.IsInternal})
          /\ inaccessibleCount
               = CountIn(B, {o \in DOMAIN B : ~o.Error /\ ~o.IsInternal
                                               /\ ~o.IsAccessible})
          /\ (pc = "returned" =>
                /\ result.InternalLinks = internalCount
                /\ result.ExternalLinks = externalCount
                /\ result.InaccessibleLinks = inaccessibleCount)

\* A completed batch whose outcomes arrived in the opposite order of the
\* submission, an internal link before the unparseable one.
C12_Witness ==
    /\ pc = "returned" /\ ~timedOut
    /\ links = << <<"%zz">>, <<"/a">> >>
    /\ received[1].Link = <<"/a">> /\ received[2].Link = <<"%zz">>
    /\ result.InternalLinks = 1

\* The link is an http or https URL with a host: a request for it can be
\* built and sent.
IsHTTPLink(link) ==
    LET u == urlParse(link)
    IN  ~u.err /\ u.Scheme \in {"http", "https"} /\ u.Host # ""

\* A response came back and its status s satisfies 200 <= s < 400.
ResponseInRange(net) == net.err = "none" /\ net.status >= 200 /\ net.status < 400

\* The URL ProcessLink hands to the checker for a link that parses.
Resolved(link) ==
    LET parsed == urlParse(link)
    IN  IF IsAbs(parsed) THEN parsed ELSE ResolveReference(baseURL, parsed)

\* The link reaches the hostname comparison of ProcessLink: it is neither
\* empty nor a fragment, and it parses.
Classified(link) ==
    link # << >> /\ ~HasPrefix(link, "#") /\ ~urlParse(link).err

C14_InternalNeverProbed ==
    (probePc = "processed" /\ Classified(probeLink)
       /\ Hostname(Resolved(probeLink)) = Hostname(baseURL)) =>
          /\ checkerCalls = 0
          /\ probeOut.IsInternal
          /\ probeOut.IsAccessible
          /\ ~probeOut.Error
          /\ \A i, e, x \in 0..1 :
                Fold(Counts(i, e, x), probeOut).inaccessible = x

\* The relative link /a classified while the network answers with a
\* connection error: no checker call, internal and accessible.
C14_Witness ==
    /\ probePc = "processed"
    /\ probeLink = <<"/a">>
    /\ probeNet = [err |-> "connection", status |-> 0]
    /\ checkerCalls = 0
    /\ probeOut.IsInternal /\ probeOut.IsAccessible

\* The step records a success (OnSuccess, directly or at the end of Execute).
SuccessRecorded ==
    lastOp' \in {[op |-> "OnSuccess", ret |-> "-"], [op |-> "ExecuteReturn", ret |-> "nil"]}

\* The step records a failure (OnFailure, directly or at the end of Execute).
FailureRecorded == consec' = consec + 1

\* C15: a Closed breaker becomes Open exactly at the step that records the
\* failureThreshold-th failure since the last success; a success recorded
\* while Closed sets the failure count to 0.
C15_OpensAtThreshold ==
    /\ [][cbState = "Closed" =>
            ((cbState' = "Open") <=> (FailureRecorded /\ consec' = failureThreshold))]_vars
    /\ [][(cbState = "Closed" /\ SuccessRecorded) =>
            (failureCount' = 0 /\ cbState' = "Closed")]_vars
    /\ [](cbState = "Closed" => (failureCount = consec /\ consec < failureThreshold))

\* A breaker with failureThreshold 2 that recorded failure, success,
\* failure, failure: open after the two consecutive ones only.
C15_Witness ==
    /\ cbState = "Open"
    /\ failureThreshold = 2
    /\ failureCount = 2 /\ consec = 2
    /\ lastOp = [op |-> "ExecuteReturn", ret |-> "err"]

\* C16: while the breaker is Open and less than the recovery timeout has
\* passed since the last failure, CanExecute returns false and Execute
\* returns the NETWORK_ERROR without starting the wrapped function, and
\* neither changes state or failure count; once the timeout has passed, the
\* first of them moves the breaker to Half-Open and admits the call.
C16_OpenRefusesUntilTimeout ==
    /\ [][(cbState = "Open" /\ sinceFailure < RecoveryTimeout
            /\ lastOp'.op \in {"CanExecute", "Execute"}) =>
            /\ lastOp'.ret = (IF lastOp'.op = "CanExecute" THEN "false"
                               ELSE "NETWORK_ERROR")
            /\ inflight' = inflight
            /\ cbState' = "Open"
            /\ failureCount' = failureCount]_vars
    /\ [][(cbState = "Open" /\ sinceFailure >= RecoveryTimeout
            /\ lastOp'.op \in {"CanExecute", "Execute"}) =>
            /\ cbState' = "HalfOpen"
            /\ lastOp'.ret = (IF lastOp'.op = "CanExecute" THEN "true" ELSE "fn")
            /\ (lastOp'.op = "Execute" => inflight' = inflight + 1)
            /\ failureCount' = failureCount]_vars

\* An Execute refused by the open breaker one tick after the failure.
C16_Witness ==
    /\ cbState = "Open"
    /\ sinceFailure = 1
    /\ RecoveryTimeout > 1
    /\ lastOp = [op |-> "Execute", ret |-> "NETWORK_ERROR"]
    /\ inflight = 0

\* C17: a success recorded in Half-Open closes the breaker with failure
\* count 0, a failure recorded in Half-Open opens it again, and Reset
\* leaves it Closed with failure count 0 whatever the state was.
C17_HalfOpenAndReset ==
    /\ [][(cbState = "HalfOpen" /\ SuccessRecorded) =>
            (cbState' = "Closed" /\ failureCount' = 0)]_vars
    /\ [][(cbState = "HalfOpen" /\ FailureRecorded) => cbState' = "Open"]_vars
    /\ [][lastOp'.op = "Reset" => (cbState' = "Closed" /\ failureCount' = 0)]_vars

\* The breaker closed by a successful Execute admitted in Half-Open.
C17_Witness ==
    /\ cbState = "Closed"
    /\ failureCount = 0
    /\ hoSucc = 1
    /\ sinceFailure = RecoveryTimeout
    /\ inflight = 0
    /\ lastOp = [op |-> "ExecuteReturn", ret |-> "nil"]

\* C18: a Half-Open breaker returns to Closed through recorded successes
\* only once successThreshold of them were recorded since it went
\* Half-Open.
C18_ClosesAfterSuccessThreshold ==
    [][(cbState = "HalfOpen" /\ cbState' = "Closed" /\ SuccessRecorded) =>
         hoSucc' >= successThreshold]_vars

\* What Get(url) returns when called in the present state.
GetAnswer(c, url) ==
    LET r == getLookup(c, url) IN <<r.result, r.found>>

\* C19: a Get(u) called less than the TTL after the latest Set(u, r)
\* returns (r, true); a Get of a URL never set returns (nil, false); a Set
\* of one URL leaves what Get returns for every other URL as it was.
C19_GetAfterSet ==
    /\ [][\A u \in CacheURLs :
            (cacheOp'.op \in {"Get", "GetExpired"} /\ cacheOp'.url = u) =>
              /\ (latest[u].set /\ latest[u].age < CacheTTL) =>
                     cacheOp' = CacheOp("Get", u, latest[u].result, TRUE, 0, 0)
              /\ ~latest[u].set =>
                     cacheOp' = CacheOp("Get", u, "nil", FALSE, 0, 0)]_vars
    /\ [][\A u \in CacheURLs :
            (cacheOp'.op = "Set" /\ cacheOp'.url = u) =>
              \A v \in CacheURLs \ {u} :
                 GetAnswer(cache', v) = GetAnswer(cache, v)]_vars

\* A Get of a.test that returned r2, the later of two results set for it,
\* one tick after that Set, while b.test holds r1.
C19_Witness ==
    /\ cacheOp = CacheOp("Get", "a.test", "r2", TRUE, 0, 0)
    /\ latest["a.test"] = [set |-> TRUE, result |-> "r2", age |-> 1]
    /\ latest["b.test"].set /\ latest["b.test"].result = "r1"
    /\ CacheTTL > 1

\* C20: a Get(u) called more than the TTL after the latest Set(u, r) is
\* not a hit; when it returns, the entry is gone, and GetStats reports as
\* its total the entries that are left.
C20_ExpiredIsMissAndRemoved ==
    /\ [][\A u \in CacheURLs :
            (cacheOp'.op \in {"Get", "GetExpired"} /\ cacheOp'.url = u
             /\ latest[u].set /\ latest[u].age > CacheTTL) =>
               ~cacheOp'.found /\ cacheOp'.result = "nil"]_vars
    /\ [][\A u \in CacheURLs :
            (cacheOp'.op = "GetDeleted" /\ cacheOp'.url = u) =>
               (~cacheOp'.found /\ generateCacheKey(u) \notin DOMAIN cache')]_vars
    /\ [][cacheOp'.op = "GetStats" =>
            cacheOp'.total = Cardinality(DOMAIN cache)]_vars
    /\ [](\A u \in CacheURLs :
            (cacheOp.op = "Get" /\ cacheOp.url = u /\ cacheOp.found) =>
               /\ generateCacheKey(u) \in DOMAIN cache
               /\ ~IsExpired(cache[generateCacheKey(u)]))

\* A Get of a.test, set more than the TTL ago, that has just deleted the
\* entry and returned a miss, while the entry of b.test stays.
C20_Witness ==
    /\ cacheOp = CacheOp("GetDeleted", "a.test", "nil", FALSE, 0, 0)
    /\ latest["a.test"].set /\ latest["a.test"].age > CacheTTL
    /\ DOMAIN cache = {generateCacheKey("b.test")}

---------------------------------------------------------------------------
(* The collection loop, the stages of a link, the WaitGroup, the frame *)

\* The value logged as skipped when the call returns.
Skipped == Len(links) - resultsReceived

\* C22: the collection loop runs exactly while fewer results than links
\* were received and the timeout case was not taken.  It is left either by
\* the result that makes resultsReceived equal to len(links), or by the
\* timeout case, which is taken only after the timer fired and only with
\* resultsReceived below len(links); after the loop the skipped value
\* len(links) - resultsReceived is never negative and is 0 exactly when
\* the loop ended by completion.
C22_LoopExit ==
    /\ [](/\ (pc = "loop" => resultsReceived < Len(links) /\ ~timedOut)
          /\ (pc \in {"wait", "returned"} =>
                /\ (timedOut \/ resultsReceived = Len(links))
                /\ Skipped >= 0
                /\ (Skipped = 0 <=> ~timedOut)))
    /\ [][(pc = "loop" /\ pc' # "loop") =>
            \/ /\ ~timedOut'
               /\ resultsReceived' = resultsReceived + 1
               /\ resultsReceived' = Len(links)
            \/ /\ timedOut'
               /\ timer = "fired"
               /\ resultsReceived' = resultsReceived
               /\ resultsReceived < Len(links)]_vars

\* The loop left by the timeout case with one of two results received.
C22_Witness ==
    /\ pc = "wait" /\ timedOut
    /\ Len(links) = 2 /\ resultsReceived = 1 /\ Skipped = 1

\* Number of positions of sequence s that hold x.
Occ(s, x) == Cardinality({i \in DOMAIN s : s[i] = x})

\* The links of a sequence of outcomes.
LinksOf(os) == [i \in DOMAIN os |-> os[i].Link]

\* Number of copies of a link at each stage of the pipeline: not yet
\* submitted, in the job queue, held by a worker, in the results channel,
\* folded by the collector.
StageCount(link) ==
    Occ(SubSeq(links, sidx, Len(links)), link) + Occ(jobs, link)
      + CopiesIn(link, busy) + Occ(LinksOf(results), link)
      + Occ(LinksOf(received), link)

\* C23: from the start of the batch every position of the link list is at
\* exactly one stage of the pipeline (not submitted, queued, held by one
\* worker, sent, folded), every outcome sent or folded is the outcome of
\* its link, and the number folded is resultsReceived; so when the batch
\* completes without the deadline firing, the outcomes folded are, link
\* for link, the list: nothing lost, nothing twice.
C23_EachLinkOnce ==
    (pc \in {"loop", "wait", "returned"} /\ links # << >>) =>
        /\ \A link \in LinkUniverse : StageCount(link) = Occ(links, link)
        /\ \A i \in DOMAIN results :
              results[i] = processLinkParallel(results[i].Link, baseURL)
        /\ \A i \in DOMAIN received :
              received[i] = processLinkParallel(received[i].Link, baseURL)
        /\ Len(received) = resultsReceived
        /\ BagCardinality(busy) + idle = wg
        /\ (pc \in {"wait", "returned"} /\ ~timedOut =>
              /\ Len(received) = Len(links)
              /\ \A link \in LinkUniverse :
                    Occ(LinksOf(received), link) = Occ(links, link)
              /\ jobs = << >> /\ busy = EmptyBag /\ results = << >>)

\* A completed batch of the same link twice: two outcomes folded.
C23_Witness ==
    /\ pc = "returned" /\ ~timedOut
    /\ links = << <<"/a">>, <<"/a">> >>
    /\ Len(received) = 2
    /\ received[1].Link = <<"/a">> /\ received[2].Link = <<"/a">>

\* C24: once the job channel is closed every worker goroutine eventually
\* leaves its range loop and the wait group reaches zero, with no worker
\* left waiting or holding a link, whether the loop ended by completion or
\* by timeout and with more workers than links.
C24_WorkersExit ==
    jobsClosed ~> (wg = 0 /\ idle = 0 /\ busy = EmptyBag)

\* All of the workers gone after a timeout, more workers than links.
C24_Witness ==
    /\ jobsClosed /\ wg = 0 /\ idle = 0
    /\ timedOut
    /\ workers > Len(links)

\* The fields of the result that are not link counters.
OtherFields ==
    {"URL", "HTMLVersion", "PageTitle", "HeadingCounts", "HasLoginForm",
     "Error", "StatusCode"}

\* C28: no step of the call changes a field of the result other than the
\* three link counters, so Error, StatusCode, title, headings, HTML
\* version and login flag are as the caller left them, also after a
\* timeout; and a call with an empty link list changes no field of the
\* result and starts nothing.
C28_Frame ==
    /\ [][\A f \in OtherFields : result'[f] = result[f]]_vars
    /\ [](\A f \in OtherFields : result[f] = resultAtEntry[f])
    /\ [][links = << >> =>
            UNCHANGED <<result, workers, timer, jobs, jobsClosed, results,
                        resultsClosed, wg, idle, busy, spc, sidx, timedOut>>]_vars

\* The result after a timeout: one internal link counted, the other
\* fields as at entry.
C28_Witness ==
    /\ pc = "returned" /\ timedOut
    /\ result.InternalLinks = 1
    /\ result.Error = "nil" /\ result.StatusCode = 200
    /\ result.PageTitle = "Title"

\* C29: no send blocks and no send meets a closed channel.  While the
\* submitter has a link to send the jobs channel has room and is open;
\* the results channel has room for the outcome of every worker holding a
\* link, and is open while any worker is alive; it is closed only with the
\* wait group at zero.
C29_SendsNeverBlock ==
    /\ (spc = "submit" /\ sidx <= Len(links)) =>
          (Len(jobs) < JobsCap /\ ~jobsClosed)
    /\ Len(results) + BagCardinality(busy) <= ResultsCap
    /\ (busy # EmptyBag => ~resultsClosed)
    /\ (resultsClosed => wg = 0 /\ idle = 0 /\ busy = EmptyBag)

\* After the timeout, with the collector gone, one outcome sits in the
\* results channel and a worker is about to send another.
C29_Witness ==
    /\ pc = "wait" /\ timedOut
    /\ Len(links) = 2
    /\ Len(results) = 1 /\ BagCardinality(busy) = 1

\* C21: the status AnalyzeHandler writes.  A request that is not a POST
\* gets 405 and a POST with an empty url gets 400, both without a call of
\* the analyzer; any other request gets one call of the analyzer and the
\* status 200 when result.Error is nil, 400 for INVALID_URL, for
\* HTTP_ERROR 400 when the upstream status is 400..499 and 502 when it is
\* 500 or more, 502 for NETWORK_ERROR, 422 for PARSE_ERROR, 408 for
\* TIMEOUT_ERROR, and 500 for every other error code.
C21_StatusMapping ==
    /\ [](\A code \in ErrorCodes \ {"INVALID_URL", "HTTP_ERROR", "NETWORK_ERROR",
                                   "PARSE_ERROR", "TIMEOUT_ERROR"} :
            \A s \in UpstreamStatuses \cup {0} :
                statusCode(Analysed(code, s)) = 500)
    /\ [][served' # served =>
            /\ (reqMethod' # "POST" => rrCode' = 405 /\ analyses' = analyses)
            /\ (reqMethod' = "POST" /\ reqURL' = "" =>
                  rrCode' = 400 /\ analyses' = analyses)
            /\ (reqMethod' = "POST" /\ reqURL' # "" =>
                  LET e == analysis'.Error
                      s == analysis'.StatusCode
                  IN  /\ analyses' = analyses + 1
                      /\ (e = "nil" => rrCode' = 200)
                      /\ (e = "INVALID_URL" => rrCode' = 400)
                      /\ (e = "HTTP_ERROR" /\ s >= 400 /\ s <= 499 => rrCode' = 400)
                      /\ (e = "HTTP_ERROR" /\ s >= 500 => rrCode' = 502)
                      /\ (e = "NETWORK_ERROR" => rrCode' = 502)
                      /\ (e = "PARSE_ERROR" => rrCode' = 422)
                      /\ (e = "TIMEOUT_ERROR" => rrCode' = 408)
                      /\ (e \notin {"nil", "INVALID_URL", "HTTP_ERROR",
                                    "NETWORK_ERROR", "PARSE_ERROR",
                                    "TIMEOUT_ERROR"} => rrCode' = 500)
                      /\ rrCode' \in {200, 400, 408, 422, 500, 502})]_vars

\* A POST whose page answered 503: the handler answers 502, after a GET
\* that was refused without analysis.
C21_Witness ==
    /\ served = 2 /\ analyses = 1
    /\ reqMethod = "POST" /\ reqURL = "https://a.test"
    /\ analysis = Analysed("HTTP_ERROR", 503)
    /\ rrCode = 502

\* The probes that hold a client: between getHTTPClient and the return.
HoldingClient == {w \in DOMAIN probers : probers[w].pc \in {"acquired", "sent"}}

C26_OneRequestPerInvocation ==
    (probers # << >> /\ \A w \in DOMAIN probers : probers[w].pc = "idle") =>
        requestsSent = invocations

\* The jobs submitted that have not produced a result yet: in the queue,
\* in a worker, or in the caller's processJob.
JobsInFlight == jobQueue + wpHolding + (IF wpPc = "processJob" THEN 1 ELSE 0)

C30_SubmissionCompletes ==
    ~(/\ wpPc = "processJob"
      /\ wpResults = bufferSize(wpWorkers)
      /\ wpHolding = wpWorkers)

\* C31: once pool.Stop() has closed stopChan and the job queue it
\* eventually returns, and it returns only with every worker gone.
C31_StopReturns ==
    /\ [](wpPc = "returned" => wpAlive = 0)
    /\ (wpPc = "Stop" ~> wpPc = "returned")

\* C32: the delete step of Get never removes an entry that is not
\* expired: an entry stored by a Set after the Get saw the old one expired
\* is still in the map when the Get returns.
C32_GetDeletesOnlyExpired ==
    [][cacheOp'.op = "GetDeleted" =>
         LET key == generateCacheKey(cacheOp'.url)
         IN  (key \in DOMAIN cache /\ ~IsExpired(cache[key])) =>
                 (key \in DOMAIN cache' /\ cache'[key] = cache[key])]_vars

\* C33: the breaker is always Closed, Open or Half-Open, its failure
\* count is never negative, and while it is Closed the failure count is
\* below the failure threshold, under every interleaving of CanExecute,
\* OnSuccess, OnFailure, Execute and Reset.
C33_BreakerInvariant ==
    /\ cbState \in {"Closed", "Open", "HalfOpen"}
    /\ failureThreshold >= 1
    /\ failureCount >= 0
    /\ (cbState = "Closed" => failureCount < failureThreshold)

\* A Closed breaker one failure short of its threshold of 2 while an
\* Execute call is running its function, after it was open once.
C33_Witness ==
    /\ cbState = "Closed"
    /\ failureThreshold = 2 /\ failureCount = 1
    /\ inflight = 1
    /\ hoSucc >= 1

\* The call c takes a step: one copy of it is gone from the bag.
Steps(c) == CopiesIn(c, calls') < CopiesIn(c, calls)

\* C34: AnalyzeURLWithContext on a URL with an unexpired cache entry
\* returns the cached result without calling the circuit breaker: from
\* entry to return the call makes no fetch and leaves the breaker's state
\* and failure count as they are, and it succeeds whatever the breaker's
\* state is.
C34_CacheHitBypassesBreaker ==
    /\ [][\A c \in BagToSet(calls) :
            LET r == getLookup(cache, c.target)
            IN  (c.pc = "lookup" /\ Steps(c) /\ r.found) =>
                    /\ calls' = Proceed(c, [c EXCEPT !.pc = "return", !.via = "cache",
                                                     !.res = r.result])
                    /\ r.result.Error = "nil"
                    /\ ~c.executed /\ ~c.fetched
                    /\ breakerState' = breakerState]_vars
    /\ [][(BagCardinality(calls') > BagCardinality(calls)
             \/ \E c \in BagToSet(calls) : c.via = "cache" /\ Steps(c)) =>
                breakerState' = breakerState]_vars
    /\ [](\A c \in BagToSet(calls) :
            c.via = "cache" =>
                /\ c.pc = "return"
                /\ c.res.Error = "nil"
                /\ ~c.executed /\ ~c.fetched)

\* The breaker is Open and a call for "a.test" returns the result cached
\* under "https://a.test".
C34_Witness ==
    /\ cbState = "Open"
    /\ failureCount >= 1
    /\ \E c \in BagToSet(calls) :
           /\ c.pc = "return" /\ c.via = "cache"
           /\ c.url = <<"a.test">>
           /\ c.target = <<"https:", "//", "a.test">>
           /\ generateCacheKey(c.target) \in DOMAIN cache
           /\ c.res = cache[generateCacheKey(c.target)].Result
           /\ c.res.Error = "nil"

\* The key gets an entry in this step, or another result, or a newer one.
Written(k) ==
    /\ k \in DOMAIN cache'
    /\ \/ k \notin DOMAIN cache
       \/ cache'[k].Result # cache[k].Result
       \/ cache'[k].Age < cache[k].Age

\* C35: an analysis that fails at or after the breaker (refused, fetch
\* error, status >= 400, parse error) leaves the cache unchanged and counts
\* as one breaker failure unless the breaker refused it; the cache is
\* written only after Execute returned nil, so every cached result has
\* Error == nil.
C35_FailureLeavesCache ==
    /\ [][\A c \in BagToSet(calls) :
            (c.pc \in {"execute", "fn"} /\ Steps(c)) =>
                \E d \in BagToSet(calls') :
                    /\ calls' = Proceed(c, d)
                    /\ d.pc = "return" =>
                          /\ d.res.Error # "nil"
                          /\ cache' = cache
                          /\ failureCount' = IF d.via = "failed" THEN failureCount + 1
                                             ELSE failureCount]_vars
    /\ [][\A k \in DOMAIN cache' :
            Written(k) =>
                \E c \in BagToSet(calls) :
                    /\ c.pc = "store" /\ Steps(c)
                    /\ c.executed /\ c.fetched
                    /\ c.res.Error = "nil"
                    /\ k = generateCacheKey(c.target)
                    /\ cache'[k].Result = c.res]_vars
    /\ [](\A k \in DOMAIN cache : cache[k].Result.Error = "nil")

\* One call has failed with the page's status 404 and opened the breaker,
\* another was refused by it; the cache holds the entry of another URL.
C35_Witness ==
    /\ \E c \in BagToSet(calls) :
           c.pc = "return" /\ c.via = "failed" /\ c.res.Error = "HTTP_ERROR"
    /\ \E c \in BagToSet(calls) :
           c.pc = "return" /\ c.via = "rejected" /\ c.res.Error = "NETWORK_ERROR"
    /\ failureCount = 1
    /\ cbState = "Open"
    /\ DOMAIN cache = {generateCacheKey(<<"https:", "//", "b.test">>)}

\* C36: a.metrics.ActiveRequests is the number of AnalyzeURLWithContext
\* calls in progress under every interleaving of the calls; it is never
\* negative and is 0 when no call is in flight.
C36_ActiveRequestsCountsCalls ==
    /\ ActiveRequests = BagCardinality(calls)
    /\ ActiveRequests >= 0
    /\ (calls = EmptyBag => ActiveRequests = 0)

\* Two calls are in progress on different paths, one returning a cached
\* result and one fetching, after another call has returned.
C36_Witness ==
    /\ ActiveRequests = 2
    /\ started = MaxAnalyses
    /\ \E c \in BagToSet(calls) : c.pc = "return" /\ c.via = "cache"
    /\ \E c \in BagToSet(calls) : c.pc = "fn"

\* The goroutines that have called the ResponseWriter of the request.
Writers == {writes[i].by : i \in 1..Len(writes)}

\* C37: for each request through the Timeout middleware one party alone
\* writes the response: once the middleware answers 408, the handler
\* goroutine makes no call on the same ResponseWriter, neither after nor
\* between the calls of the middleware's response.
C37_SingleWriter ==
    /\ Cardinality(Writers) <= 1
    /\ (mwPc \in {"error", "errorHeader", "errorStatus"} => "handler" \notin Writers)

=========================================================================
